---------------------------- MODULE Spec2Model ----------------------------
(***************************************************************************)
(* Model of the PDF page pipeline of epson-thermal-printer                 *)
(* (src/lib/pdf-processor.ts): render -> trimCanvasMargins -> scale ->     *)
(* toDataURL / canvasToRasterData.                                         *)
(*                                                                         *)
(* A canvas is [id, width, height, pixels]; pixels is the row-major sequence*)
(* of RGBA 4-tuples that getImageData returns, so the pixel (x, y) of the  *)
(* source (0-based) is pixels[y * width + x + 1].                          *)
(*                                                                         *)
(* JavaScript numbers are IEEE-754 doubles.  The two places where the code *)
(* computes with fractions (the luminance sum and the aspect ratio) are    *)
(* modelled with correctly rounded binary64 arithmetic on fixed-point      *)
(* numbers held as little-endian sequences of 14-bit limbs.                *)
(***************************************************************************)
EXTENDS Integers, Sequences, FiniteSets, TLC

(***************************************************************************)
(* IEEE-754 binary64 arithmetic (round to nearest, ties to even).          *)
(* A non-negative double x is the limb sequence of the natural number      *)
(* x * 2^(LimbBits * FracLimbs), least significant limb first.             *)
(***************************************************************************)
LimbBits == 14

Limb == 2 ^ LimbBits

FracLimbs == 6

MantissaBits == 53

RECURSIVE LCarry(_, _)
LCarry(s, c) ==
    IF s = << >>
    THEN IF c = 0 THEN << >> ELSE << c % Limb >> \o LCarry(<< >>, c \div Limb)
    ELSE LET v == Head(s) + c
         IN  << v % Limb >> \o LCarry(Tail(s), v \div Limb)

LFromInt(n) == [i \in 1..FracLimbs |-> 0] \o LCarry(<< n >>, 0)

LMulInt(s, n) == LCarry([i \in DOMAIN s |-> s[i] * n], 0)

LAdd(a, b) ==
    LET len == IF Len(a) > Len(b) THEN Len(a) ELSE Len(b)
        at(s, i) == IF i <= Len(s) THEN s[i] ELSE 0
    IN  LCarry([i \in 1..len |-> at(a, i) + at(b, i)], 0)

\* Schoolbook division of the limb sequence s by the small integer n, from
\* the most significant limb down: <<quotient limbs, remainder>>.
RECURSIVE LDivInt(_, _)
LDivInt(s, n) ==
    IF s = << >>
    THEN << << >>, 0 >>
    ELSE LET hi  == LDivInt(SubSeq(s, 2, Len(s)), n)
             cur == hi[2] * Limb + s[1]
         IN  << << cur \div n >> \o hi[1], cur % n >>

\* Number of significant bits of a limb 1..Limb-1, and of a limb sequence.
BitLen(v) == CHOOSE k \in 1..LimbBits : 2 ^ (k - 1) <= v /\ v < 2 ^ k

LTop(s) == IF \E i \in DOMAIN s : s[i] # 0
           THEN CHOOSE i \in DOMAIN s : s[i] # 0 /\ \A j \in DOMAIN s : j > i => s[j] = 0
           ELSE 0

LBits(s) == IF LTop(s) = 0 THEN 0 ELSE LimbBits * (LTop(s) - 1) + BitLen(s[LTop(s)])

\* Rounding of an exact value to the nearest double: keep MantissaBits
\* significant bits, round half to even.
LRound(s) ==
    LET d == LBits(s) - MantissaBits
    IN  IF d <= 0 THEN s
        ELSE LET q      == d \div LimbBits
                 t      == d % LimbBits
                 i0     == q + 1
                 unit   == 2 ^ t
                 low    == s[i0] % unit
                 half   == IF t >= 1 THEN low \div (2 ^ (t - 1)) = 1
                                     ELSE s[q] >= Limb \div 2
                 sticky == IF t >= 1
                           THEN low % (2 ^ (t - 1)) # 0 \/ \E i \in 1..q : s[i] # 0
                           ELSE s[q] % (Limb \div 2) # 0 \/ \E i \in 1..(q - 1) : s[i] # 0
                 odd    == (s[i0] \div unit) % 2 = 1
                 up     == half /\ (sticky \/ odd)
             IN  LCarry([i \in DOMAIN s |->
                            IF i <= q THEN 0
                            ELSE IF i = i0 THEN s[i] - low + (IF up THEN unit ELSE 0)
                            ELSE s[i]], 0)

\* a * n, a + b and h / n as the double operators compute them (n, h small
\* non-negative integers, which doubles hold exactly).
FMul(a, n) == LRound(LMulInt(a, n))

FAdd(a, b) == LRound(LAdd(a, b))

FDiv(h, n) ==
    LET qr == LDivInt(LFromInt(h), n)
        q  == qr[1]
        \* a non-zero remainder only matters as "something below the last
        \* limb": fold it into the lowest bit before rounding
        qs == IF qr[2] # 0 /\ q[1] % 2 = 0 THEN [q EXCEPT ![1] = q[1] + 1] ELSE q
    IN  LRound(qs)

FFloor(a) ==
    LET at(i) == IF i <= Len(a) THEN a[i] ELSE 0
    IN  at(FracLimbs + 1) + Limb * at(FracLimbs + 2)

\* Math.round: nearest integer, a fraction of exactly one half rounds up.
MathRound(a) == FFloor(a) + (IF a[FracLimbs] >= Limb \div 2 THEN 1 ELSE 0)


(***************************************************************************)
(* Pixels and canvases.                                                    *)
(***************************************************************************)
White == << 255, 255, 255, 255 >>

Black == << 0, 0, 0, 255 >>

OffWhite == << 250, 250, 250, 255 >>

NearWhite == << 255, 249, 255, 255 >>

MidGray == << 128, 128, 128, 255 >>

\* id tells the canvas objects of one page apart: "highRes", "cropped",
\* "scaled" are the three document.createElement('canvas') of the source.
Canvas(id, w, h, px) == [id |-> id, width |-> w, height |-> h, pixels |-> px]

NoCanvas == Canvas("none", 0, 0, << >>)

\* pixels[(y * width + x) * 4 .. + 3] of the source: the RGBA tuple of (x, y)
PixelAt(canvas, x, y) == canvas.pixels[y * canvas.width + x + 1]

Min(a, b) == IF a < b THEN a ELSE b

Max(a, b) == IF a > b THEN a ELSE b

\* fillStyle = 'white'; fillRect; drawImage: source-over compositing of a
\* source pixel on the white fill.  Every canvas of the pipeline is opaque
\* (the page is rendered on a white fill), so the source pixel wins.
DrawOver(dst, src) == IF src[4] = 255 THEN src ELSE dst

(***************************************************************************)
(* trimCanvasMargins                                                       *)
(***************************************************************************)
whiteThreshold == 250

MinimalTrim == 10

NonWhite(p) == p[1] < whiteThreshold \/ p[2] < whiteThreshold \/ p[3] < whiteThreshold

RowHasContent(canvas, y) == \E x \in 0..(canvas.width - 1) : NonWhite(PixelAt(canvas, x, y))

ColHasContent(canvas, x) == \E y \in 0..(canvas.height - 1) : NonWhite(PixelAt(canvas, x, y))

ContentRows(canvas) == {y \in 0..(canvas.height - 1) : RowHasContent(canvas, y)}

ContentCols(canvas) == {x \in 0..(canvas.width - 1) : ColHasContent(canvas, x)}

SetMin(S) == CHOOSE v \in S : \A u \in S : v <= u

SetMax(S) == CHOOSE v \in S : \A u \in S : v >= u

\* the four scans: first hit of each loop, or the initial value if none
ScanTop(canvas) == IF ContentRows(canvas) = {} THEN 0 ELSE SetMin(ContentRows(canvas))

\* (a changed scan: bottom starts at 0 instead of height - 1)
ScanBottomFromZero(canvas) ==
    IF ContentRows(canvas) = {} THEN 0 ELSE SetMax(ContentRows(canvas))

ScanBottom(canvas) ==
    IF ContentRows(canvas) = {} THEN canvas.height - 1 ELSE SetMax(ContentRows(canvas))

ScanLeft(canvas) == IF ContentCols(canvas) = {} THEN 0 ELSE SetMin(ContentCols(canvas))

ScanRight(canvas) ==
    IF ContentCols(canvas) = {} THEN canvas.width - 1 ELSE SetMax(ContentCols(canvas))

\* (a changed box: the right edge widened by the left margin)
TrimBoxLeftForRight(canvas, margins) ==
    [top    |-> Max(0, ScanTop(canvas) - margins.top),
     bottom |-> Min(canvas.height - 1, ScanBottom(canvas) + margins.bottom),
     left   |-> Max(0, ScanLeft(canvas) - margins.left),
     right  |-> Min(canvas.width - 1, ScanRight(canvas) + margins.left)]

\* "Apply configured margins"
TrimBox(canvas, margins) ==
    [top    |-> Max(0, ScanTop(canvas) - margins.top),
     bottom |-> Min(canvas.height - 1, ScanBottom(canvas) + margins.bottom),
     left   |-> Max(0, ScanLeft(canvas) - margins.left),
     right  |-> Min(canvas.width - 1, ScanRight(canvas) + margins.right)]

\* (a changed test: > instead of >=)
MinimalMarginsStrict(canvas, newWidth, newHeight) ==
    newWidth > canvas.width - MinimalTrim /\ newHeight > canvas.height - MinimalTrim

\* "If margins are minimal, return original"
MinimalMargins(canvas, newWidth, newHeight) ==
    newWidth >= canvas.width - MinimalTrim /\ newHeight >= canvas.height - MinimalTrim

\* (a changed crop: drawImage from the origin instead of (left, top))
CropCanvasFromOrigin(canvas, left, top, newWidth, newHeight) ==
    Canvas("cropped", newWidth, newHeight,
           [i \in 1..(newWidth * newHeight) |->
               DrawOver(White, PixelAt(canvas, (i - 1) % newWidth, (i - 1) \div newWidth))])

\* croppedCtx.fillRect(white); croppedCtx.drawImage(canvas, left, top, ...)
CropCanvas(canvas, left, top, newWidth, newHeight) ==
    Canvas("cropped", newWidth, newHeight,
           [i \in 1..(newWidth * newHeight) |->
               DrawOver(White, PixelAt(canvas, left + ((i - 1) % newWidth),
                                               top + ((i - 1) \div newWidth)))])

trimCanvasMargins(canvas, margins) ==
    LET box       == TrimBox(canvas, margins)
        newWidth  == box.right - box.left + 1
        newHeight == box.bottom - box.top + 1
    IN  IF MinimalMargins(canvas, newWidth, newHeight)
        THEN canvas
        ELSE CropCanvas(canvas, box.left, box.top, newWidth, newHeight)

(***************************************************************************)
(* canvasToRasterData                                                      *)
(***************************************************************************)
\* the double literals 0.299, 0.587, 0.114: nearest doubles of the decimals
W299 == FDiv(299, 1000)

W587 == FDiv(587, 1000)

W114 == FDiv(114, 1000)

\* const gray = 0.299 * r + 0.587 * g + 0.114 * b  (evaluated left to right)
Gray(p) == FAdd(FAdd(FMul(W299, p[1]), FMul(W587, p[2])), FMul(W114, p[3]))

Palette == {White, Black, OffWhite, NearWhite, MidGray}

\* Math.floor(gray) of every colour in use, computed once
GrayFloor == [p \in Palette |-> FFloor(Gray(p))]

\* gray < threshold ? 1 : 0; for an integer threshold, gray < threshold
\* exactly if floor(gray) < threshold
isBlack(p, threshold) == IF GrayFloor[p] < threshold THEN 1 ELSE 0

\* (a changed width: floor + 1 instead of ceil)
PaddedWidthExtraByte(canvas) == ((canvas.width \div 8) + 1) * 8

PaddedWidth(canvas) == ((canvas.width + 7) \div 8) * 8

\* rasterData[byteIndex] |= (1 << bitIndex)
SetBit(data, byteIndex, bitIndex) ==
    LET v == data[byteIndex + 1]
    IN  IF (v \div (2 ^ bitIndex)) % 2 = 1 THEN data
        ELSE [data EXCEPT ![byteIndex + 1] = v + 2 ^ bitIndex]

ByteIndex(x, y, bytesPerLine) == y * bytesPerLine + (x \div 8)

\* (a changed bit order: least significant bit first)
BitIndexLsbFirst(x) == x % 8

BitIndex(x) == 7 - (x % 8)

\* (a changed clamp: padding columns wrap around to the row's start)
SrcXWrapped(canvas, x) == x % canvas.width

SrcX(canvas, x) == Min(x, canvas.width - 1)

\* the body of the inner loop for column x of row y
RasterStep(canvas, threshold, y, x, data) ==
    IF isBlack(PixelAt(canvas, SrcX(canvas, x), y), threshold) = 1
    THEN SetBit(data, ByteIndex(x, y, PaddedWidth(canvas) \div 8), BitIndex(x))
    ELSE data

\* eight iterations of the inner loop, columns x .. x+7 of row y (one byte
\* of the row)
RasterByte(canvas, threshold, y, x, data) ==
    RasterStep(canvas, threshold, y, x + 7,
    RasterStep(canvas, threshold, y, x + 6,
    RasterStep(canvas, threshold, y, x + 5,
    RasterStep(canvas, threshold, y, x + 4,
    RasterStep(canvas, threshold, y, x + 3,
    RasterStep(canvas, threshold, y, x + 2,
    RasterStep(canvas, threshold, y, x + 1,
    RasterStep(canvas, threshold, y, x, data))))))))

\* the inner loop, columns x .. width-1 of row y, a byte of the row at a
\* time: width is a multiple of 8
RECURSIVE RasterCols(_, _, _, _, _)
RasterCols(canvas, threshold, y, x, data) ==
    LET next == RasterByte(canvas, threshold, y, x, data)
    \* (the test on next only makes TLC evaluate it before the next iteration)
    IN  IF x >= PaddedWidth(canvas) THEN data
        ELSE IF Len(next) >= 0 THEN RasterCols(canvas, threshold, y, x + 8, next)
        ELSE data

\* the outer loop, rows y .. height-1
RECURSIVE RasterRows(_, _, _, _)
RasterRows(canvas, threshold, y, data) ==
    LET next == RasterCols(canvas, threshold, y, 0, data)
    IN  IF y >= canvas.height THEN data
        ELSE IF Len(next) >= 0 THEN RasterRows(canvas, threshold, y + 1, next)
        ELSE data

\* new Uint8Array(bytesPerLine * height), then the two loops
RasterData(canvas, threshold) ==
    RasterRows(canvas, threshold, 0,
               [i \in 1..((PaddedWidth(canvas) \div 8) * canvas.height) |-> 0])

\* btoa(String.fromCharCode(...rasterData)): every three bytes give four
\* 6-bit digits; 64 is the '=' padding of an incomplete last group
btoa(bytes) ==
    LET n     == Len(bytes)
        at(i) == IF i <= n THEN bytes[i] ELSE 0
    IN  [k \in 1..(4 * ((n + 2) \div 3)) |->
            LET g  == 3 * ((k - 1) \div 4)
                b1 == at(g + 1)
                b2 == at(g + 2)
                b3 == at(g + 3)
                d  == (k - 1) % 4
            IN  IF d = 0 THEN b1 \div 4
                ELSE IF d = 1 THEN (b1 % 4) * 16 + b2 \div 16
                ELSE IF d = 2 THEN (IF g + 2 <= n THEN (b2 % 16) * 4 + b3 \div 64 ELSE 64)
                ELSE (IF g + 3 <= n THEN b3 % 64 ELSE 64)]

canvasToRasterData(canvas, threshold) == btoa(RasterData(canvas, threshold))


(***************************************************************************)
(* processPdfPage                                                          *)
(***************************************************************************)
DEFAULT_PDF_CONFIG ==
    [enabled             |-> TRUE,
     trimMargins         |-> [top |-> 8, bottom |-> 8, left |-> 8, right |-> 8],
     targetWidth         |-> 576,
     scale               |-> 3,
     monochromeThreshold |-> 160]

\* { ...a, ...b }: the fields of b override those of a
Spread(a, b) == [f \in (DOMAIN a) \cup (DOMAIN b) |-> IF f \in DOMAIN b THEN b[f] ELSE a[f]]

\* (a changed merge: the spreads in the other order, the defaults last)
MergeConfigDefaultsLast(cfg) ==
    LET flat == Spread(cfg, DEFAULT_PDF_CONFIG)
    IN  [flat EXCEPT !.trimMargins =
            IF "trimMargins" \in DOMAIN cfg
            THEN Spread(cfg.trimMargins, DEFAULT_PDF_CONFIG.trimMargins)
            ELSE DEFAULT_PDF_CONFIG.trimMargins]

\* mergedConfig: a caller's config is a record holding the fields it supplies
MergeConfig(cfg) ==
    LET flat == Spread(DEFAULT_PDF_CONFIG, cfg)
    IN  [flat EXCEPT !.trimMargins =
            IF "trimMargins" \in DOMAIN cfg
            THEN Spread(DEFAULT_PDF_CONFIG.trimMargins, cfg.trimMargins)
            ELSE DEFAULT_PDF_CONFIG.trimMargins]

\* Math.round(targetWidth * (height / width))
TargetHeight(canvas, targetWidth) ==
    MathRound(FMul(FDiv(canvas.height, canvas.width), targetWidth))

\* drawImage(processedCanvas, 0, 0, targetWidth, targetHeight) on a white
\* fill.  The resampling filter is the browser's; the model lets it be any
\* of these nearest-neighbour samplings.
Resamplers == {"floor", "center"}

Resample(src, targetWidth, targetHeight, sampler) ==
    [i \in 1..(targetWidth * targetHeight) |->
        LET x  == (i - 1) % targetWidth
            y  == (i - 1) \div targetWidth
            sx == IF sampler = "floor" THEN (x * src.width) \div targetWidth
                  ELSE ((2 * x + 1) * src.width) \div (2 * targetWidth)
            sy == IF sampler = "floor" THEN (y * src.height) \div targetHeight
                  ELSE ((2 * y + 1) * src.height) \div (2 * targetHeight)
        IN  DrawOver(White, PixelAt(src, sx, sy))]

ScaleCanvas(canvas, targetWidth, sampler) ==
    LET targetHeight == TargetHeight(canvas, targetWidth)
    IN  Canvas("scaled", targetWidth, targetHeight,
               Resample(canvas, targetWidth, targetHeight, sampler))

\* canvas.toDataURL('image/png'): a lossless encoding of the canvas bitmap
toDataURL(canvas) ==
    [mime |-> "image/png", width |-> canvas.width, height |-> canvas.height,
     data |-> canvas.pixels]

NoResult ==
    [base64 |-> toDataURL(NoCanvas), width |-> 0, height |-> 0,
     rasterBase64 |-> << >>, canvas |-> NoCanvas]

VARIABLES
    pc,               \* position in processPdfPage
    config,           \* the caller's PdfProcessingConfig
    mergedConfig,
    highResCanvas,
    processedCanvas,
    finalCanvas,
    rasterData,       \* the Uint8Array of canvasToRasterData
    result,           \* the ProcessedPage returned
    log,              \* the stages run so far, in order
    filePc,           \* position in processPdfFile ("none": processPdfPage called directly)
    doc,              \* the PDF document of the file
    pageNum,          \* the loop variable of processPdfFile
    pages,            \* const pages: ProcessedPage[]
    events,           \* page fetches, render starts and ends, failures, in order
    printerConfig,    \* the config useEpsonPrinter is rendered with, or Null
    rerenders,        \* how often the hook was rendered with another config
    isLoading,        \* useState(false) of useEpsonPrinter
    hookError,        \* useState<string | null>(null) of useEpsonPrinter
    ops,              \* the operations started through the hook, in call order
    jobs,             \* the calls of EposPrintService methods, in call order
    state,            \* const state: LoaderState of the SDK loader
    epson,            \* whether window.epson.ePOSPrint is defined
    scripts,          \* the script[data-epson-sdk] elements appended to the document
    loads,            \* the loads started by loadEpsonSDK, in start order
    calls,            \* the loadEpsonSDK calls made, in call order
    resets,           \* how often resetLoaderState was called
    localStorage,     \* the item stored under each key, or NoItem
    hook,             \* a mounted usePrinterConfig: props, ref, state, returned flag
    steps,            \* how many calls and renders the usePrinterConfig hook has seen
    customWorkerSrc,  \* pdf-processor's module variable; "" stands for null
    pdfjsLib,         \* whether pdf-processor's module variable holds the loaded module
    GlobalWorkerOptions, \* pdfjs-dist's GlobalWorkerOptions, one object for all importers
    previewLoaded,    \* whether the PdfPreview module has been evaluated
    pdfCalls,         \* the PDF processing calls made, in call order
    pagesCall,        \* one printPages call: its arguments and the job it builds
    pdfPreview,       \* a PdfPreview component: its props and its state
    loadPdfs          \* the loadPdf calls of the component's effect, in start order

pageVars == << pc, config, mergedConfig, highResCanvas, processedCanvas, finalCanvas,
               rasterData, result, log >>

fileVars == << filePc, doc, pageNum, pages >>

pdfVars == << pageVars, fileVars, events >>

printVars == << printerConfig, rerenders, isLoading, hookError, ops, jobs >>

loaderVars == << state, epson, scripts, loads, calls, resets >>

configVars == << localStorage, hook, steps >>

workerVars == << customWorkerSrc, pdfjsLib, GlobalWorkerOptions, previewLoaded, pdfCalls >>

previewVars == << pagesCall, pdfPreview, loadPdfs >>

vars == << pdfVars, printVars, loaderVars, configVars, workerVars, previewVars >>


(***************************************************************************)
(* Inputs: the bitmaps a page render can leave on the white canvas, and    *)
(* the configurations a caller can pass.                                   *)
(***************************************************************************)
MaxTrimDim == 23

MaxTrimWide == 13

MaxTrimSmall == 3

MaxTrimMinor == 2

MaxRasterWidth == 9

MaxRasterHeight == 2

Cells(w, h) == (0..(w - 1)) \X (0..(h - 1))

\* at most two marked cells
MarkSets(w, h) == {{}} \cup {{p, q} : p \in Cells(w, h), q \in Cells(w, h)}

InBox(c, marks) ==
    /\ \E p \in marks : p[1] <= c[1]
    /\ \E p \in marks : p[1] >= c[1]
    /\ \E p \in marks : p[2] <= c[2]
    /\ \E p \in marks : p[2] >= c[2]

\* a w x h bitmap of colour bg whose marked cells (or, if dense, the whole
\* rectangle they span) have colour fg
Pattern(w, h, bg, fg, marks, dense) ==
    Canvas("highRes", w, h,
           [i \in 1..(w * h) |->
               LET c == << (i - 1) % w, (i - 1) \div w >>
               IN  IF c \in marks \/ (dense /\ InBox(c, marks)) THEN fg ELSE bg])

Patterns(w, h, kinds) ==
    {Pattern(w, h, k[1], k[2], m, k[3]) : k \in kinds, m \in MarkSets(w, h)}

\* sparse black marks on white, a dense near-white block on off-white
TrimKinds == {<< White, Black, FALSE >>, << OffWhite, NearWhite, TRUE >>}

\* blank pages: white with at most one off-white cell
BlankPatterns(w, h) ==
    {Pattern(w, h, White, OffWhite, m, FALSE) : m \in {{}} \cup {{c} : c \in Cells(w, h)}}

\* Side lengths: too short for any crop (up to MaxTrimSmall), and from the
\* first length that can have MinimalTrim pixels of slack up to MaxTrimWide.
TrimLengths == (1..MaxTrimSmall) \cup ((MinimalTrim + 1)..MaxTrimWide)

\* bitmaps up to MaxTrimMinor thin, and the strip MaxTrimDim long (a crop of
\* it can be long enough to be cropped again), in both orientations
TrimShapes ==
    LET thin(a, b) == \/ (a <= MaxTrimMinor /\ b \in TrimLengths)
                      \/ (a = 1 /\ b = MaxTrimDim)
    IN  {s \in (1..MaxTrimDim) \X (1..MaxTrimDim) : thin(s[1], s[2]) \/ thin(s[2], s[1])}

TrimInputs(shape) ==
    Patterns(shape[1], shape[2], TrimKinds) \cup BlankPatterns(shape[1], shape[2])

RasterKinds == {<< White, Black, FALSE >>, << Black, White, FALSE >>,
                << White, MidGray, FALSE >>, << MidGray, Black, FALSE >>}

RasterShapes == (1..MaxRasterWidth) \X (1..MaxRasterHeight)

RasterInputs(shape) == Patterns(shape[1], shape[2], RasterKinds)

PageShapes == {<< 1, 1 >>, << 3, 2 >>, << 10, 7 >>, << 13, 1 >>}

PageMarks(w, h) == {{}, {<< 0, 0 >>}, {<< w \div 2, h \div 2 >>}}

\* a page: its size in points and the cells it paints black; page.render
\* rejects on a page that cannot be decoded
Pages ==
    UNION {{[width |-> s[1], height |-> s[2], marks |-> m, fetches |-> TRUE, renders |-> TRUE] :
               m \in PageMarks(s[1], s[2])} : s \in PageShapes}

UndecodablePage ==
    [width |-> 1, height |-> 1, marks |-> {}, fetches |-> TRUE, renders |-> FALSE]

\* pdf.getPage rejects
MissingPage ==
    [width |-> 1, height |-> 1, marks |-> {}, fetches |-> FALSE, renders |-> FALSE]

\* page.getViewport({ scale }) sizes the canvas; page.render paints the page
\* on its white fill
RenderPage(page, scale) ==
    Pattern(page.width * scale, page.height * scale, White, Black,
            {<< m[1] * scale, m[2] * scale >> : m \in page.marks}, FALSE)

MarginChoices ==
    {[top |-> 0, bottom |-> 0, left |-> 0, right |-> 0],
     [top |-> 2, bottom |-> 0, left |-> 0, right |-> 1],
     [top |-> 1, left |-> 2]}

TargetWidths == {0, 3, 45}

Thresholds == {128, 200}

\* the caller's configs: trimMargins, monochromeThreshold and scale may be
\* omitted
Configs ==
    LET full == [enabled : BOOLEAN, trimMargins : MarginChoices,
                 targetWidth : TargetWidths, monochromeThreshold : Thresholds,
                 scale : {1}]
        Omit(c, fs) == [f \in (DOMAIN c) \ fs |-> c[f]]
    IN  full \cup {Omit(c, {"trimMargins", "monochromeThreshold", "scale"}) : c \in full}

\* configs that trim only / rasterize only
TrimConfigs == {c \in Configs : c.enabled /\ c.targetWidth = 0 /\ "trimMargins" \in DOMAIN c
                                /\ c.monochromeThreshold = 200}

RasterConfigs == {c \in Configs : ~c.enabled /\ c.targetWidth = 0
                                  /\ ("trimMargins" \in DOMAIN c => c.trimMargins.top = 0
                                                                   /\ c.trimMargins.left = 0)}

(***************************************************************************)
(* The steps of processPdfPage.                                            *)
(***************************************************************************)
\* the page processPdfPage is called with
CurrentPage == doc.pages[pageNum]

\* merge the config, create the white high-resolution canvas, start
\* page.render and await its promise
Render ==
    /\ pc = "start"
    /\ mergedConfig' = MergeConfig(config)
    /\ pc' = "rendering"
    /\ log' = Append(log, "render")
    /\ events' = Append(events, << "renderStart", pageNum >>)
    /\ UNCHANGED << config, highResCanvas, processedCanvas, finalCanvas, rasterData, result >>
    /\ UNCHANGED fileVars
    /\ UNCHANGED << printVars, loaderVars, configVars, workerVars, previewVars >>

\* the render promise settles: the canvas holds the page, or the promise
\* rejects and processPdfPage rejects with it
RenderDone ==
    /\ pc = "rendering"
    /\ LET page == CurrentPage
       IN IF page.renders
          THEN /\ highResCanvas' = RenderPage(page, mergedConfig.scale)
               /\ pc' = "rendered"
               /\ events' = Append(events, << "renderEnd", pageNum >>)
          ELSE /\ highResCanvas' = highResCanvas
               /\ pc' = "failed"
               /\ events' = events \o << << "renderEnd", pageNum >>, << "fail", pageNum >> >>
    /\ UNCHANGED << config, mergedConfig, processedCanvas, finalCanvas, rasterData, result, log >>
    /\ UNCHANGED fileVars
    /\ UNCHANGED << printVars, loaderVars, configVars, workerVars, previewVars >>

\* "Apply trimming if enabled"
Trim ==
    /\ pc = "rendered"
    /\ IF mergedConfig.enabled
       THEN /\ processedCanvas' = trimCanvasMargins(highResCanvas, mergedConfig.trimMargins)
            /\ log' = Append(log, "trim")
       ELSE /\ processedCanvas' = highResCanvas
            /\ log' = log
    /\ pc' = "trimmed"
    /\ UNCHANGED << config, mergedConfig, highResCanvas, finalCanvas, rasterData, result >>
    /\ UNCHANGED << fileVars, events >>
    /\ UNCHANGED << printVars, loaderVars, configVars, workerVars, previewVars >>

\* (a changed scale step: it runs whenever processing is enabled)
ScaleWithoutTargetCheck ==
    /\ pc = "trimmed"
    /\ IF mergedConfig.enabled
       THEN /\ \E sampler \in Resamplers :
                 finalCanvas' = ScaleCanvas(processedCanvas, mergedConfig.targetWidth, sampler)
            /\ log' = Append(log, "scale")
       ELSE /\ finalCanvas' = processedCanvas
            /\ log' = log
    /\ pc' = "scaled"
    /\ UNCHANGED << config, mergedConfig, highResCanvas, processedCanvas, rasterData, result >>
    /\ UNCHANGED << fileVars, events >>
    /\ UNCHANGED << printVars, loaderVars, configVars, workerVars, previewVars >>

\* (a changed scale step: it runs whenever a target width is set)
ScaleIgnoringEnabled ==
    /\ pc = "trimmed"
    /\ IF mergedConfig.targetWidth # 0
       THEN /\ \E sampler \in Resamplers :
                 finalCanvas' = ScaleCanvas(processedCanvas, mergedConfig.targetWidth, sampler)
            /\ log' = Append(log, "scale")
       ELSE /\ finalCanvas' = processedCanvas
            /\ log' = log
    /\ pc' = "scaled"
    /\ UNCHANGED << config, mergedConfig, highResCanvas, processedCanvas, rasterData, result >>
    /\ UNCHANGED << fileVars, events >>
    /\ UNCHANGED << printVars, loaderVars, configVars, workerVars, previewVars >>

\* (a changed scale step: the trimmed canvas itself is resized and redrawn)
ScaleInPlace ==
    /\ pc = "trimmed"
    /\ IF mergedConfig.enabled /\ mergedConfig.targetWidth # 0
       THEN /\ \E sampler \in Resamplers :
                 finalCanvas' = ScaleCanvas(processedCanvas, mergedConfig.targetWidth, sampler)
            /\ processedCanvas' = finalCanvas'
            /\ log' = Append(log, "scale")
       ELSE /\ finalCanvas' = processedCanvas
            /\ processedCanvas' = processedCanvas
            /\ log' = log
    /\ pc' = "scaled"
    /\ UNCHANGED << config, mergedConfig, highResCanvas, rasterData, result >>
    /\ UNCHANGED << fileVars, events >>
    /\ UNCHANGED << printVars, loaderVars, configVars, workerVars, previewVars >>

\* "Scale to target width if enabled"; 0 stands for every falsy targetWidth
Scale ==
    /\ pc = "trimmed"
    /\ IF mergedConfig.enabled /\ mergedConfig.targetWidth # 0
       THEN /\ \E sampler \in Resamplers :
                 finalCanvas' = ScaleCanvas(processedCanvas, mergedConfig.targetWidth, sampler)
            /\ log' = Append(log, "scale")
       ELSE /\ finalCanvas' = processedCanvas
            /\ log' = log
    /\ pc' = "scaled"
    /\ UNCHANGED << config, mergedConfig, highResCanvas, processedCanvas, rasterData, result >>
    /\ UNCHANGED << fileVars, events >>
    /\ UNCHANGED << printVars, loaderVars, configVars, workerVars, previewVars >>

\* (a changed output: the raster taken from the canvas before scaling)
OutputFromProcessed ==
    /\ pc = "scaled"
    /\ IF finalCanvas.width = 0 \/ finalCanvas.height = 0
       THEN /\ pc' = "failed"
            /\ log' = Append(log, "preview")
            /\ events' = Append(events, << "fail", pageNum >>)
            /\ UNCHANGED << rasterData, result >>
       ELSE /\ rasterData' = RasterData(processedCanvas, mergedConfig.monochromeThreshold)
            /\ result' = [base64       |-> toDataURL(finalCanvas),
                          width        |-> finalCanvas.width,
                          height       |-> finalCanvas.height,
                          rasterBase64 |-> btoa(rasterData'),
                          canvas       |-> finalCanvas]
            /\ log' = log \o << "preview", "raster" >>
            /\ events' = events
            /\ pc' = "done"
    /\ UNCHANGED << config, mergedConfig, highResCanvas, processedCanvas, finalCanvas >>
    /\ UNCHANGED fileVars
    /\ UNCHANGED << printVars, loaderVars, configVars, workerVars, previewVars >>

\* toDataURL, canvasToRasterData, return.  getImageData throws on a canvas
\* without pixels (IndexSizeError), and processPdfPage rejects.
Output ==
    /\ pc = "scaled"
    /\ IF finalCanvas.width = 0 \/ finalCanvas.height = 0
       THEN /\ pc' = "failed"
            /\ log' = Append(log, "preview")
            /\ events' = Append(events, << "fail", pageNum >>)
            /\ UNCHANGED << rasterData, result >>
       ELSE /\ rasterData' = RasterData(finalCanvas, mergedConfig.monochromeThreshold)
            /\ result' = [base64       |-> toDataURL(finalCanvas),
                          width        |-> finalCanvas.width,
                          height       |-> finalCanvas.height,
                          rasterBase64 |-> btoa(rasterData'),
                          canvas       |-> finalCanvas]
            /\ log' = log \o << "preview", "raster" >>
            /\ events' = events
            /\ pc' = "done"
    /\ UNCHANGED << config, mergedConfig, highResCanvas, processedCanvas, finalCanvas >>
    /\ UNCHANGED fileVars
    /\ UNCHANGED << printVars, loaderVars, configVars, workerVars, previewVars >>

\* const state: LoaderState at module load; no script appended, no call made
IdleLoaderState == [loading |-> FALSE, loaded |-> FALSE, error |-> "null", promise |-> 0]

\* pdfjs-dist not imported by anyone, no worker configured
NoWorker ==
    /\ customWorkerSrc = ""
    /\ pdfjsLib = FALSE
    /\ GlobalWorkerOptions = [workerSrc |-> ""]
    /\ previewLoaded = FALSE
    /\ pdfCalls = << >>

\* no printPages call under study, no PdfPreview rendered
NoPreview ==
    /\ pagesCall = << >>
    /\ pdfPreview = << >>
    /\ loadPdfs = << >>

\* the SDK loader not in use, no usePrinterConfig mounted
NoLoader ==
    /\ NoWorker
    /\ NoPreview
    /\ localStorage = << >>
    /\ hook = << >>
    /\ steps = 0
    /\ state = IdleLoaderState
    /\ epson = FALSE
    /\ scripts = << >>
    /\ loads = << >>
    /\ calls = << >>
    /\ resets = 0

\* no printer hook in use
NoPrinter ==
    /\ NoLoader
    /\ printerConfig = [null |-> TRUE]
    /\ rerenders = 0
    /\ isLoading = FALSE
    /\ hookError = "null"
    /\ ops = << >>
    /\ jobs = << >>

\* processPdfPage called on its own, outside processPdfFile, with a page
DirectCall(page) ==
    /\ filePc = "none"
    /\ doc = [readable |-> TRUE, pages |-> << page >>]
    /\ pageNum = 1
    /\ pages = << >>
    /\ events = << >>

\* a bitmap handed to trimCanvasMargins or canvasToRasterData without a page
NoFile ==
    /\ filePc = "none"
    /\ doc = [readable |-> TRUE, pages |-> << >>]
    /\ pageNum = 0
    /\ pages = << >>
    /\ events = << >>

Init ==
    /\ NoPrinter
    /\ pc = "start"
    /\ config \in Configs
    /\ mergedConfig = DEFAULT_PDF_CONFIG
    /\ highResCanvas = NoCanvas
    /\ processedCanvas = NoCanvas
    /\ finalCanvas = NoCanvas
    /\ rasterData = << >>
    /\ result = NoResult
    /\ log = << >>
    /\ \E page \in Pages \cup {UndecodablePage} : DirectCall(page)

Next == Render \/ RenderDone \/ Trim \/ Scale \/ Output

Spec == Init /\ [][Next]_vars

(***************************************************************************)
(* processPdfFile: open the document, then fetch and process its pages in  *)
(* a loop, awaiting each before the next.                                  *)
(***************************************************************************)
MaxPages == 2

\* the pages of the documents: two that render (the strip scales to a
\* bitmap without rows at target width 3), one that does not decode, one
\* that cannot be fetched
FilePages ==
    {[width |-> 3, height |-> 2, marks |-> {<< 0, 0 >>}, fetches |-> TRUE, renders |-> TRUE],
     [width |-> 13, height |-> 1, marks |-> {}, fetches |-> TRUE, renders |-> TRUE],
     UndecodablePage, MissingPage}

Docs ==
    {[readable |-> FALSE, pages |-> << >>]}
        \cup {[readable |-> TRUE, pages |-> ps] :
                 ps \in UNION {[1..n -> FilePages] : n \in 0..MaxPages}}

FileConfigs == [enabled : BOOLEAN, targetWidth : {0, 3}, monochromeThreshold : {128, 300},
                scale : {1}]

\* getPdfJs, file.arrayBuffer, getDocument: any of them may reject
OpenFile ==
    /\ filePc = "open"
    /\ IF doc.readable
       THEN /\ filePc' = "loop"
            /\ pageNum' = 1
       ELSE /\ filePc' = "rejected"
            /\ pageNum' = pageNum
    /\ UNCHANGED << pageVars, doc, pages, events >>
    /\ UNCHANGED << printVars, loaderVars, configVars, workerVars, previewVars >>

\* pageNum <= pdf.numPages; await pdf.getPage(pageNum); processPdfPage is
\* called with the page and the caller's config
GetPage ==
    /\ filePc = "loop"
    /\ pageNum <= Len(doc.pages)
    /\ IF doc.pages[pageNum].fetches
       THEN /\ filePc' = "page"
            /\ pc' = "start"
            /\ mergedConfig' = DEFAULT_PDF_CONFIG
            /\ highResCanvas' = NoCanvas
            /\ processedCanvas' = NoCanvas
            /\ finalCanvas' = NoCanvas
            /\ rasterData' = << >>
            /\ result' = NoResult
            /\ log' = << >>
            /\ events' = Append(events, << "getPage", pageNum >>)
       ELSE /\ filePc' = "rejected"
            /\ events' = events \o << << "getPage", pageNum >>, << "fail", pageNum >> >>
            /\ UNCHANGED << pc, mergedConfig, highResCanvas, processedCanvas, finalCanvas,
                            rasterData, result, log >>
    /\ UNCHANGED << config, doc, pageNum, pages >>
    /\ UNCHANGED << printVars, loaderVars, configVars, workerVars, previewVars >>

\* (a changed push: the newest page goes to the front of the array)
PushPageInFront ==
    /\ filePc = "page"
    /\ pc = "done"
    /\ pages' = << result >> \o pages
    /\ pageNum' = pageNum + 1
    /\ filePc' = "loop"
    /\ pc' = "idle"
    /\ UNCHANGED << config, mergedConfig, highResCanvas, processedCanvas, finalCanvas,
                    rasterData, result, log, doc, events >>
    /\ UNCHANGED << printVars, loaderVars, configVars, workerVars, previewVars >>

\* processPdfPage resolved: pages.push(processedPage); pageNum++
PushPage ==
    /\ filePc = "page"
    /\ pc = "done"
    /\ pages' = Append(pages, result)
    /\ pageNum' = pageNum + 1
    /\ filePc' = "loop"
    /\ pc' = "idle"
    /\ UNCHANGED << config, mergedConfig, highResCanvas, processedCanvas, finalCanvas,
                    rasterData, result, log, doc, events >>
    /\ UNCHANGED << printVars, loaderVars, configVars, workerVars, previewVars >>

\* (a changed failure path: a failed page is skipped and the loop goes on)
PageFailedSkipsPage ==
    /\ filePc = "page"
    /\ pc = "failed"
    /\ filePc' = "loop"
    /\ pageNum' = pageNum + 1
    /\ pc' = "idle"
    /\ UNCHANGED << config, mergedConfig, highResCanvas, processedCanvas, finalCanvas,
                    rasterData, result, log, doc, pages, events >>
    /\ UNCHANGED << printVars, loaderVars, configVars, workerVars, previewVars >>

\* processPdfPage rejected: the await throws out of the loop and
\* processPdfFile rejects
PageFailed ==
    /\ filePc = "page"
    /\ pc = "failed"
    /\ filePc' = "rejected"
    /\ pageNum' = pageNum
    /\ pc' = pc
    /\ UNCHANGED << config, mergedConfig, highResCanvas, processedCanvas, finalCanvas,
                    rasterData, result, log, doc, pages, events >>
    /\ UNCHANGED << printVars, loaderVars, configVars, workerVars, previewVars >>

\* the loop test fails: return pages
ReturnPages ==
    /\ filePc = "loop"
    /\ pageNum > Len(doc.pages)
    /\ filePc' = "resolved"
    /\ UNCHANGED << pageVars, doc, pageNum, pages, events >>
    /\ UNCHANGED << printVars, loaderVars, configVars, workerVars, previewVars >>

InitFile ==
    /\ NoPrinter
    /\ pc = "idle"
    /\ config \in FileConfigs
    /\ mergedConfig = DEFAULT_PDF_CONFIG
    /\ highResCanvas = NoCanvas
    /\ processedCanvas = NoCanvas
    /\ finalCanvas = NoCanvas
    /\ rasterData = << >>
    /\ result = NoResult
    /\ log = << >>
    /\ filePc = "open"
    /\ doc \in Docs
    /\ pageNum = 0
    /\ pages = << >>
    /\ events = << >>

NextFile ==
    \/ OpenFile \/ GetPage \/ Render \/ RenderDone \/ Trim \/ Scale \/ Output
    \/ PushPage \/ PageFailed \/ ReturnPages

SpecFile == InitFile /\ [][NextFile]_vars

\* the event loop runs the continuation of a rejected await
SpecFileFair == SpecFile /\ WF_vars(PageFailed)

(***************************************************************************)
(* processPdfPage with fields of the config left out.  The default target  *)
(* width is 576, so the pages are wide strips: their scaled bitmap has few *)
(* rows.                                                                   *)
(***************************************************************************)
WideWidth == 192

WidePages ==
    {[width |-> WideWidth, height |-> 1, marks |-> m, fetches |-> TRUE, renders |-> TRUE] :
        m \in {{}, {<< 0, 0 >>, << 100, 0 >>}}}

Restrict(f, keys) == [k \in (DOMAIN f) \cap keys |-> f[k]]

\* every field left out or supplied; trimMargins left out, empty, partial
\* or complete
PartialConfigs ==
    LET fields  == {"enabled", "trimMargins", "targetWidth", "scale", "monochromeThreshold"}
        margins == [top |-> 0, bottom |-> 1, left |-> 2, right |-> 0]
        full    == [enabled : BOOLEAN,
                    trimMargins : {Restrict(margins, ks) :
                                      ks \in {{}, {"top", "left"}, {"bottom", "right"},
                                               {"top", "bottom", "left", "right"}}},
                    targetWidth : {0, 3},
                    scale : {1},
                    monochromeThreshold : {128}]
    IN  {Restrict(c, ks) : c \in full, ks \in SUBSET fields}

InitPartial ==
    /\ NoPrinter
    /\ pc = "start"
    /\ config \in PartialConfigs
    /\ mergedConfig = DEFAULT_PDF_CONFIG
    /\ highResCanvas = NoCanvas
    /\ processedCanvas = NoCanvas
    /\ finalCanvas = NoCanvas
    /\ rasterData = << >>
    /\ result = NoResult
    /\ log = << >>
    /\ \E page \in WidePages : DirectCall(page)

NextPartial == Render \/ RenderDone \/ Trim \/ Scale \/ Output

SpecPartial == InitPartial /\ [][NextPartial]_vars

\* trimCanvasMargins on its own: every pattern, right after the render
InitTrim ==
    /\ NoPrinter
    /\ pc = "rendered"
    /\ config \in TrimConfigs
    /\ mergedConfig = MergeConfig(config)
    /\ \E shape \in TrimShapes : highResCanvas \in TrimInputs(shape)
    /\ processedCanvas = NoCanvas
    /\ finalCanvas = NoCanvas
    /\ rasterData = << >>
    /\ result = NoResult
    /\ log = << "render" >>
    /\ NoFile

NextTrim == Trim

SpecTrim == InitTrim /\ [][NextTrim]_vars

\* canvasToRasterData on its own: every pattern as the final canvas of a
\* page processed with enabled = false
InitRaster ==
    /\ NoPrinter
    /\ pc = "scaled"
    /\ config \in RasterConfigs
    /\ mergedConfig = MergeConfig(config)
    /\ \E shape \in RasterShapes : highResCanvas \in RasterInputs(shape)
    /\ processedCanvas = highResCanvas
    /\ finalCanvas = highResCanvas
    /\ rasterData = << >>
    /\ result = NoResult
    /\ log = << "render" >>
    /\ NoFile

NextRaster == Output

SpecRaster == InitRaster /\ [][NextRaster]_vars


(***************************************************************************)
(* EposPrintService and the useEpsonPrinter hook.                          *)
(***************************************************************************)
Null == [null |-> TRUE]

\* constructor: this.config
EposPrintService(cfg) ==
    [printerIP   |-> cfg.printerIP,
     printerPort |-> IF "printerPort" \in DOMAIN cfg THEN cfg.printerPort ELSE 80,
     deviceId    |-> IF "deviceId" \in DOMAIN cfg THEN cfg.deviceId ELSE "local_printer",
     timeout     |-> IF "timeout" \in DOMAIN cfg THEN cfg.timeout ELSE 60000]

\* `http://${printerIP}:${printerPort}/cgi-bin/epos/service.cgi?devid=${deviceId}&timeout=${timeout}`
getPrinterUrl(service) ==
    [scheme  |-> "http",
     host    |-> service.printerIP,
     port    |-> service.printerPort,
     path    |-> "/cgi-bin/epos/service.cgi",
     devid   |-> service.deviceId,
     timeout |-> service.timeout]

NoService == [printerIP |-> "", printerPort |-> 0, deviceId |-> "", timeout |-> 0]

NoUrl == [scheme |-> "", host |-> "", port |-> 0, path |-> "", devid |-> "", timeout |-> 0]

NOT_CONFIGURED_RESULT ==
    [success |-> FALSE, code |-> "NOT_CONFIGURED", message |-> "Printer not configured"]

SDK_NOT_LOADED_RESULT ==
    [success |-> FALSE, code |-> "SDK_NOT_LOADED", message |-> "Failed to load Epson ePOS SDK"]

\* what onreceive and onerror resolve the operation with
PrinterResults ==
    {[success |-> TRUE, code |-> "SUCCESS", message |-> "Impresion exitosa"],
     [success |-> FALSE, code |-> "NETWORK_ERROR", message |-> "Error de red: Sin conexion"]}

NoPrintResult == [success |-> FALSE, code |-> "", message |-> ""]

OpKinds == {"print", "printPages", "printWithBuilder", "testConnection", "checkConnection"}

MaxOps == 2

MaxRerenders == 1

\* an EpsonPrinterConfig: printerIP alone with useHttps, or every field given
PrinterConfigs ==
    {[printerIP |-> "192.168.1.100", useHttps |-> TRUE],
     [printerIP |-> "192.168.1.100", printerPort |-> 8043, deviceId |-> "kitchen",
      timeout |-> 5000, useHttps |-> FALSE]}

\* the component renders the hook with another config (or none)
Rerender ==
    /\ rerenders < MaxRerenders
    /\ rerenders' = rerenders + 1
    /\ printerConfig' \in (PrinterConfigs \cup {Null}) \ {printerConfig}
    /\ UNCHANGED << isLoading, hookError, ops, jobs >>
    /\ UNCHANGED << pdfVars, loaderVars, configVars, workerVars, previewVars >>

\* (a changed call: the loading flag is raised before the config is looked at)
HookCallLoadingFirst ==
    /\ Len(ops) < MaxOps
    /\ \E kind \in OpKinds :
          IF printerConfig = Null
          THEN /\ hookError' = NOT_CONFIGURED_RESULT.message
               /\ isLoading' = TRUE
               /\ ops' = Append(ops, [kind |-> kind, pc |-> "returned", config |-> Null,
                                      service |-> NoService, url |-> NoUrl,
                                      result |-> NOT_CONFIGURED_RESULT])
          ELSE /\ isLoading' = TRUE
               /\ hookError' = "null"
               /\ ops' = Append(ops, [kind |-> kind, pc |-> "awaiting",
                                      config |-> printerConfig,
                                      service |-> EposPrintService(printerConfig),
                                      url |-> NoUrl, result |-> NoPrintResult])
    /\ UNCHANGED << printerConfig, rerenders, jobs >>
    /\ UNCHANGED << pdfVars, loaderVars, configVars, workerVars, previewVars >>

\* print, printPages, printWithBuilder, testConnection, checkConnection up
\* to the await of the service method; an operation records the config its
\* service was constructed with
HookCall ==
    /\ Len(ops) < MaxOps
    /\ \E kind \in OpKinds :
          IF printerConfig = Null
          THEN /\ hookError' = NOT_CONFIGURED_RESULT.message
               /\ isLoading' = isLoading
               /\ ops' = Append(ops, [kind |-> kind, pc |-> "returned", config |-> Null,
                                      service |-> NoService, url |-> NoUrl,
                                      result |-> NOT_CONFIGURED_RESULT])
          ELSE /\ isLoading' = TRUE
               /\ hookError' = "null"
               /\ ops' = Append(ops, [kind |-> kind, pc |-> "awaiting",
                                      config |-> printerConfig,
                                      service |-> EposPrintService(printerConfig),
                                      url |-> NoUrl, result |-> NoPrintResult])
    /\ UNCHANGED << printerConfig, rerenders, jobs >>
    /\ UNCHANGED << pdfVars, loaderVars, configVars, workerVars, previewVars >>

\* the hook's continuation of the await: setError on a failure, and
\* finally setIsLoading(false)
HookReturn(i, res) ==
    /\ ops' = [ops EXCEPT ![i].pc = "returned", ![i].result = res]
    /\ hookError' = IF res.success THEN hookError ELSE res.message
    /\ isLoading' = FALSE

\* the service method after ensureSDKLoaded: without the SDK it returns
\* SDK_NOT_LOADED, with it it creates the ePOSPrint for getPrinterUrl() and
\* sends
ServiceSend ==
    /\ \E i \in DOMAIN ops :
          /\ ops[i].pc = "awaiting"
          /\ \/ /\ ops' = [ops EXCEPT ![i].pc = "sent",
                                         ![i].url = getPrinterUrl(ops[i].service)]
                /\ UNCHANGED << isLoading, hookError >>
             \/ HookReturn(i, SDK_NOT_LOADED_RESULT)
    /\ UNCHANGED << printerConfig, rerenders, jobs >>
    /\ UNCHANGED << pdfVars, loaderVars, configVars, workerVars, previewVars >>

\* onreceive or onerror resolves the operation
PrinterResponds ==
    /\ \E i \in DOMAIN ops :
          /\ ops[i].pc = "sent"
          /\ \E res \in PrinterResults : HookReturn(i, res)
    /\ UNCHANGED << printerConfig, rerenders, jobs >>
    /\ UNCHANGED << pdfVars, loaderVars, configVars, workerVars, previewVars >>

\* no PDF being processed
NoPdf ==
    /\ pc = "idle"
    /\ config = DEFAULT_PDF_CONFIG
    /\ mergedConfig = DEFAULT_PDF_CONFIG
    /\ highResCanvas = NoCanvas
    /\ processedCanvas = NoCanvas
    /\ finalCanvas = NoCanvas
    /\ rasterData = << >>
    /\ result = NoResult
    /\ log = << >>
    /\ NoFile

InitPrint ==
    /\ NoPdf
    /\ NoLoader
    /\ printerConfig \in PrinterConfigs \cup {Null}
    /\ rerenders = 0
    /\ isLoading = FALSE
    /\ hookError = "null"
    /\ ops = << >>
    /\ jobs = << >>

NextPrint == Rerender \/ HookCall \/ ServiceSend \/ PrinterResponds

SpecPrint == InitPrint /\ [][NextPrint]_vars


(***************************************************************************)
(* The methods of EposPrintService that send to the printer: printCanvas,  *)
(* printWithBuilder, printPages and checkConnection (SpecService).  A job  *)
(* is one call: its position, the ePOSBuilder it constructed, what it      *)
(* passed to send, the resolved flag of doResolve, its guard timer, the    *)
(* request of its ePOSPrint, the outcomes that occurred in order, and the  *)
(* code of the PrintResult its promise delivered ("": none yet).           *)
(***************************************************************************)
ServiceKinds == {"printCanvas", "printWithBuilder", "printPages", "checkConnection"}

MaxJobs == 2

\* res.code of the printer's answers passed to onreceive
ResponseCodes == {"SUCCESS", "EPTR_COVER_OPEN"}

\* (a changed construction: one builder kept on the service and reused)
SharedBuilder(js) == 1

\* new epson.ePOSBuilder(): an object no earlier call has constructed
NewBuilder(js) == 1 + Cardinality({ i \in DOMAIN js : js[i].builder # 0 })

\* builder.toString() after the commands the method adds (default options,
\* one canvas): the XML names the builder that accumulated the commands
BuilderXml(kind, b) ==
    [builder  |-> b,
     commands |-> CASE kind = "printCanvas"      -> << "addTextAlign", "addImage", "addCut" >>
                    [] kind = "printWithBuilder" -> << "buildFn" >>
                    [] kind = "printPages"       -> << "addTextAlign", "addImage",
                                                       "addFeedLine", "addCut" >>
                    [] kind = "checkConnection"  -> << >>]

\* resolve(result) of the Promise: only the first call settles it
resolve(job, code) ==
    IF job.pc = "settled" THEN job
    ELSE [job EXCEPT !.pc = "settled", !.result = code]

\* (a changed doResolve: the flag is not consulted and the last result wins)
doResolveLastWins(job, code) ==
    [job EXCEPT !.resolved = TRUE, !.pc = "settled", !.result = code]

\* const doResolve = (result) => { if (!resolved) { resolved = true; resolve(result) } }
doResolve(job, code) ==
    IF job.resolved THEN job
    ELSE resolve([job EXCEPT !.resolved = TRUE], code)

\* clearTimeout(timeoutId)
clearTimeout(job) ==
    IF job.timer = "armed" THEN [job EXCEPT !.timer = "cleared"] ELSE job

\* the catch block: printWithBuilder calls resolve without clearing the
\* timer, the other three clear it and call doResolve
Catch(job) ==
    LET thrown == [job EXCEPT !.outcomes = Append(@, "SDK_ERROR")]
    IN  IF job.kind = "printWithBuilder" THEN resolve(thrown, "SDK_ERROR")
        ELSE doResolve(clearTimeout(thrown), "SDK_ERROR")

\* config.timeout of the service the methods are called on: the default of
\* the constructor, and a shorter one
ServiceTimeouts == {5000, 60000}

\* calls in the specification with timers that fire; calls share no state
\* after ensureSDKLoaded
MaxTimedJobs == 1

\* (a changed delay: every method waits config.timeout + 5000)
GuardDelayUniform(kind, timeout) == timeout + 5000

\* the delay passed to setTimeout for the guard timer
GuardDelay(kind, timeout) ==
    CASE kind = "printPages"      -> timeout + 10000
      [] kind = "checkConnection" -> IF timeout < 10000 THEN timeout ELSE 10000
      [] OTHER                    -> timeout + 5000

\* (a changed early return: the guard timer is started before the SDK check)
SdkNotLoadedAfterArming(job) ==
    [job EXCEPT !.pc = "settled", !.sdkLoaded = "no", !.result = "SDK_NOT_LOADED",
                !.outcomes = << "SDK_NOT_LOADED" >>, !.timer = "armed",
                !.delay = GuardDelay(job.kind, job.timeout)]

\* if (!sdkLoaded) return { success: false, code: 'SDK_NOT_LOADED', ... }
SdkNotLoaded(job) ==
    [job EXCEPT !.pc = "settled", !.sdkLoaded = "no", !.result = "SDK_NOT_LOADED",
                !.outcomes = << "SDK_NOT_LOADED" >>]

\* a method is called on a service with one of the given timeouts and
\* awaits ensureSDKLoaded()
ServiceCallOn(timeouts, maxJobs) ==
    /\ Len(jobs) < maxJobs
    /\ \E kind \in ServiceKinds,
          timeout \in IF jobs = << >> THEN timeouts ELSE {jobs[1].timeout} :
        jobs' = Append(jobs, [kind |-> kind, timeout |-> timeout, pc |-> "ensure",
                              sdkLoaded |-> "awaited", builder |-> 0, sent |-> << >>,
                              resolved |-> FALSE, timer |-> "none", delay |-> 0,
                              xhr |-> "none", outcomes |-> << >>, result |-> ""])
    /\ UNCHANGED << printerConfig, rerenders, isLoading, hookError, ops >>
    /\ UNCHANGED << pdfVars, loaderVars, configVars, workerVars, previewVars >>

\* on a service with the default timeout
ServiceCall == ServiceCallOn({60000}, MaxJobs)

\* on a service with either timeout
ServiceCallTimed == ServiceCallOn(ServiceTimeouts, MaxTimedJobs)

\* the rest of the method: SDK_NOT_LOADED without the SDK; otherwise the
\* Promise executor arms the guard timer, constructs the builder and then
\* finds no 2D context (printCanvas), throws while building, sends, or
\* throws from send with the request already under way
ServiceExecute ==
    /\ \E i \in DOMAIN jobs,
          how \in {"noSdk", "noContext", "throwBuild", "sent", "throwSend"} :
        /\ jobs[i].pc = "ensure"
        /\ how = "noContext" => jobs[i].kind = "printCanvas"
        /\ LET b     == NewBuilder(jobs)
               xml   == BuilderXml(jobs[i].kind, b)
               armed == [jobs[i] EXCEPT !.pc = "pending", !.sdkLoaded = "yes",
                                        !.timer = "armed",
                                        !.delay = GuardDelay(jobs[i].kind, jobs[i].timeout),
                                        !.builder = b]
               send  == [armed EXCEPT !.sent = Append(@, xml)]
           IN  jobs' = [jobs EXCEPT ![i] =
                   CASE how = "noSdk" -> SdkNotLoaded(jobs[i])
                     [] how = "noContext" ->
                            doResolve(clearTimeout([armed EXCEPT !.outcomes = << "CANVAS_ERROR" >>]),
                                      "CANVAS_ERROR")
                     [] how = "throwBuild" -> Catch(armed)
                     [] how = "sent"       -> [send EXCEPT !.xhr = "pending"]
                     [] how = "throwSend"  -> Catch([send EXCEPT !.xhr = "pending"])]
    /\ UNCHANGED << printerConfig, rerenders, isLoading, hookError, ops >>
    /\ UNCHANGED << pdfVars, loaderVars, configVars, workerVars, previewVars >>

\* printer.onreceive
onreceive ==
    /\ \E i \in DOMAIN jobs, code \in ResponseCodes :
        /\ jobs[i].xhr = "pending"
        /\ jobs' = [jobs EXCEPT ![i] =
                       doResolve(clearTimeout([jobs[i] EXCEPT !.xhr = "answered",
                                                              !.outcomes = Append(@, code)]),
                                 code)]
    /\ UNCHANGED << printerConfig, rerenders, isLoading, hookError, ops >>
    /\ UNCHANGED << pdfVars, loaderVars, configVars, workerVars, previewVars >>

\* printer.onerror
onerror ==
    /\ \E i \in DOMAIN jobs :
        /\ jobs[i].xhr = "pending"
        /\ LET code == IF jobs[i].kind = "checkConnection" THEN "CONNECTION_ERROR"
                       ELSE "NETWORK_ERROR"
           IN  jobs' = [jobs EXCEPT ![i] =
                           doResolve(clearTimeout([jobs[i] EXCEPT !.xhr = "failed",
                                                                  !.outcomes = Append(@, code)]),
                                     code)]
    /\ UNCHANGED << printerConfig, rerenders, isLoading, hookError, ops >>
    /\ UNCHANGED << pdfVars, loaderVars, configVars, workerVars, previewVars >>

\* the callback of the guard timer
GuardTimeout ==
    /\ \E i \in DOMAIN jobs :
        /\ jobs[i].timer = "armed"
        /\ jobs' = [jobs EXCEPT ![i] =
                       doResolve([jobs[i] EXCEPT !.timer = "fired",
                                                 !.outcomes = Append(@, "TIMEOUT")],
                                 "TIMEOUT")]
    /\ UNCHANGED << printerConfig, rerenders, isLoading, hookError, ops >>
    /\ UNCHANGED << pdfVars, loaderVars, configVars, workerVars, previewVars >>

InitService ==
    /\ NoPdf
    /\ NoPrinter

NextService == ServiceCall \/ ServiceExecute \/ onreceive \/ onerror \/ GuardTimeout

SpecService == InitService /\ [][NextService]_vars

NextServiceFair ==
    ServiceCallTimed \/ ServiceExecute \/ onreceive \/ onerror \/ GuardTimeout

\* the await of ensureSDKLoaded settles and armed timers fire
SpecServiceFair ==
    /\ InitService
    /\ [][NextServiceFair]_vars
    /\ WF_vars(ServiceExecute)
    /\ WF_vars(GuardTimeout)


(***************************************************************************)
(* The SDK loader: loadEpsonSDK, loadScript, waitForSDKAvailable and       *)
(* resetLoaderState (SpecLoader).  A step is one browser task: the code    *)
(* of a call up to its first await, or an event handler or timer together  *)
(* with the promise continuations it releases.                             *)
(***************************************************************************)
MaxCalls == 3

MaxResets == 1

isEpsonSDKLoaded == epson

\* the loads whose promise has not settled yet
InProgress == { i \in 1..Len(loads) : loads[i].pc # "done" }

\* (a changed success path: loading is left as it is)
LoadSucceedsStillLoading(st) == [st EXCEPT !.loaded = TRUE]

\* the end of the try block of a load: the promise resolves to true
LoadSucceeds(st) == [st EXCEPT !.loaded = TRUE, !.loading = FALSE]

\* (a changed catch block: the error is not recorded)
LoadFailsSilently(st) == [st EXCEPT !.loading = FALSE, !.loaded = FALSE]

\* the catch block of a load: the promise resolves to false
LoadFails(st) == [st EXCEPT !.error = "Error", !.loading = FALSE, !.loaded = FALSE]

\* loadEpsonSDK() up to its return.  A call records the loads in progress
\* when it was made, the load whose promise it received (0: it returned true
\* at once) and whether it started a load.  A started load runs loadScript:
\* with a script[data-epson-sdk] in the document it goes on to poll for
\* window.epson, otherwise it appends the script and awaits its events.
LoadCall ==
    /\ Len(calls) < MaxCalls
    /\ IF state.loaded \/ isEpsonSDKLoaded
       THEN /\ state' = [state EXCEPT !.loaded = TRUE, !.loading = FALSE]
            /\ calls' = Append(calls, [during |-> InProgress, got |-> 0, started |-> FALSE])
            /\ UNCHANGED << scripts, loads >>
       ELSE IF state.loading /\ state.promise # 0
       THEN /\ calls' = Append(calls, [during |-> InProgress, got |-> state.promise,
                                       started |-> FALSE])
            /\ UNCHANGED << state, scripts, loads >>
       ELSE LET id == Len(loads) + 1
                existing == scripts # << >>
            IN  /\ state' = [state EXCEPT !.loading = TRUE, !.error = "null", !.promise = id]
                /\ scripts' = IF existing THEN scripts ELSE Append(scripts, "pending")
                /\ loads' = Append(loads, [pc |-> IF existing THEN "polling" ELSE "awaitScript",
                                           result |-> "none"])
                /\ calls' = Append(calls, [during |-> InProgress, got |-> id, started |-> TRUE])
    /\ UNCHANGED << epson, resets >>
    /\ UNCHANGED << pdfVars, printVars, configVars, workerVars, previewVars >>

\* the script ran and script.onload fires; the load awaiting it checks
\* window.epson at once and, finding it, completes
ScriptLoaded ==
    /\ \E k \in 1..Len(scripts), defines \in BOOLEAN :
        /\ scripts[k] = "pending"
        /\ scripts' = [scripts EXCEPT ![k] = "loaded"]
        /\ epson' = (epson \/ defines)
        /\ loads' = [i \in 1..Len(loads) |->
                        IF loads[i].pc # "awaitScript" THEN loads[i]
                        ELSE IF epson' THEN [pc |-> "done", result |-> "true"]
                        ELSE [loads[i] EXCEPT !.pc = "polling"]]
        /\ state' = IF epson' /\ \E i \in 1..Len(loads) : loads[i].pc = "awaitScript"
                    THEN LoadSucceeds(state) ELSE state
    /\ UNCHANGED << calls, resets >>
    /\ UNCHANGED << pdfVars, printVars, configVars, workerVars, previewVars >>

\* script.onerror fires; the load awaiting it ends in its catch block
ScriptError ==
    /\ \E k \in 1..Len(scripts) :
        /\ scripts[k] = "pending"
        /\ scripts' = [scripts EXCEPT ![k] = "failed"]
    /\ loads' = [i \in 1..Len(loads) |->
                    IF loads[i].pc = "awaitScript" THEN [pc |-> "done", result |-> "false"]
                    ELSE loads[i]]
    /\ state' = IF \E i \in 1..Len(loads) : loads[i].pc = "awaitScript"
                THEN LoadFails(state) ELSE state
    /\ UNCHANGED << epson, calls, resets >>
    /\ UNCHANGED << pdfVars, printVars, configVars, workerVars, previewVars >>

\* the check of waitForSDKAvailable that ends the wait of a load: it finds
\* window.epson, or maxWait has passed
Poll ==
    /\ \E i \in 1..Len(loads) :
        /\ loads[i].pc = "polling"
        /\ IF isEpsonSDKLoaded
           THEN /\ loads' = [loads EXCEPT ![i] = [pc |-> "done", result |-> "true"]]
                /\ state' = LoadSucceeds(state)
           ELSE /\ loads' = [loads EXCEPT ![i] = [pc |-> "done", result |-> "false"]]
                /\ state' = LoadFails(state)
    /\ UNCHANGED << epson, scripts, calls, resets >>
    /\ UNCHANGED << pdfVars, printVars, configVars, workerVars, previewVars >>

resetLoaderState ==
    /\ resets < MaxResets
    /\ resets' = resets + 1
    /\ state' = IdleLoaderState
    /\ UNCHANGED << epson, scripts, loads, calls >>
    /\ UNCHANGED << pdfVars, printVars, configVars, workerVars, previewVars >>

\* the page may have brought its own copy of the SDK
InitLoader ==
    /\ NoPdf
    /\ printerConfig = Null
    /\ rerenders = 0
    /\ isLoading = FALSE
    /\ hookError = "null"
    /\ ops = << >>
    /\ jobs = << >>
    /\ localStorage = << >>
    /\ hook = << >>
    /\ steps = 0
    /\ NoWorker
    /\ NoPreview
    /\ state = IdleLoaderState
    /\ epson \in BOOLEAN
    /\ scripts = << >>
    /\ loads = << >>
    /\ calls = << >>
    /\ resets = 0

NextLoader == LoadCall \/ ScriptLoaded \/ ScriptError \/ Poll \/ resetLoaderState

SpecLoader == InitLoader /\ [][NextLoader]_vars


(***************************************************************************)
(* The usePrinterConfig hook and localStorage (SpecConfig).  A string that *)
(* the code inspects character by character (printerIP) is a sequence of   *)
(* characters.                                                             *)
(***************************************************************************)
DEFAULT_STORAGE_KEY == "epson-printer-config"

StorageKeys == {DEFAULT_STORAGE_KEY, "printer-office"}

INTERNAL_DEFAULTS == [printerPort |-> 80, deviceId |-> "local_printer", timeout |-> 60000]

ZeroIP == << "0", ".", "0", ".", "0", ".", "0" >>

\* printerIP values: none, blank, the unset address, that address after a
\* blank, and two printers
PrinterIPs ==
    {<< >>, << " ", " " >>, ZeroIP, << " " >> \o ZeroIP,
     << "1", "0", ".", "0", ".", "0", ".", "5", "0" >>,
     << "1", "0", ".", "0", ".", "0", ".", "5", "1" >>}

\* String.prototype.trim
trim(str) ==
    LET inked == { i \in DOMAIN str : str[i] # " " }
    IN  IF inked = {} THEN << >> ELSE SubSeq(str, SetMin(inked), SetMax(inked))

\* JSON.stringify of a config object: the item text
JSONstringify(obj) == [json |-> obj]

\* no item under a key: getItem returns null
NoItem == [json |-> Null]

\* an item that is not JSON: JSON.parse throws
BrokenItem == [text |-> "not json"]

\* the items a key may hold before the hook is mounted
StoredItems ==
    {NoItem, BrokenItem,
     JSONstringify([printerIP |-> << "1", "0", ".", "0", ".", "0", ".", "5", "1" >>]),
     JSONstringify([printerIP |-> ZeroIP, printerPort |-> 9100,
                    deviceId |-> "kitchen", timeout |-> 5000])}

\* the initialConfig option: left out (Null), or given
InitialConfigs ==
    {Null,
     [printerIP |-> << "1", "0", ".", "0", ".", "0", ".", "5", "0" >>],
     [printerIP |-> << " ", " " >>, printerPort |-> 8043]}

\* the arguments of updateConfig
Updates ==
    {[printerIP |-> ip] : ip \in PrinterIPs} \cup {[timeout |-> 5000], [printerPort |-> 9100]}

MaxConfigSteps == 3

\* (a changed load: initialConfig wins over the stored fields)
loadFromStorageInitialWins(store, storageKey, initialConfig) ==
    LET stored == store[storageKey]
    IN  IF stored # NoItem /\ stored # BrokenItem
        THEN Spread(Spread(INTERNAL_DEFAULTS, stored.json),
                    IF initialConfig = Null THEN << >> ELSE initialConfig)
        ELSE initialConfig

\* loadFromStorage: a broken item throws in JSON.parse and is logged; an
\* initialConfig left out is Null, which is also what it returns for it
loadFromStorage(store, storageKey, initialConfig) ==
    LET stored == store[storageKey]
    IN  IF stored # NoItem /\ stored # BrokenItem
        THEN Spread(Spread(INTERNAL_DEFAULTS,
                           IF initialConfig = Null THEN << >> ELSE initialConfig),
                    stored.json)
        ELSE initialConfig

\* (a changed flag: the unset address counts as configured)
isConfiguredAnyAddress(cfg) ==
    /\ cfg # Null
    /\ "printerIP" \in DOMAIN cfg
    /\ cfg.printerIP # << >>
    /\ trim(cfg.printerIP) # << >>

\* const isConfigured = config !== null && Boolean(config.printerIP && ...)
isConfigured(cfg) ==
    /\ cfg # Null
    /\ "printerIP" \in DOMAIN cfg
    /\ cfg.printerIP # << >>
    /\ trim(cfg.printerIP) # << >>
    /\ cfg.printerIP # ZeroIP

\* what a render with the given state returns.  For the properties the hook
\* also records the call or render that led to the state (last), the config
\* it last loaded from localStorage (loaded), whether updateConfig was called
\* since (updated) and how often the storageKey changed (keyChanges)
usePrinterConfig(h, cfg, last) ==
    [h EXCEPT !.config = cfg, !.isConfigured = isConfigured(cfg), !.last = last,
              !.updated = (@ \/ last = "update")]

\* the first render: useRef(initialConfig ?? null), useState(() => loadFromStorage(...))
Mount(store, storageKey, initialConfig) ==
    LET cfg == loadFromStorage(store, storageKey, initialConfig)
    IN  [storageKey |-> storageKey, initialConfig |-> initialConfig,
         initialConfigRef |-> initialConfig, config |-> cfg,
         isConfigured |-> isConfigured(cfg),
         last |-> "mount", loaded |-> cfg, updated |-> FALSE, keyChanges |-> 0]

\* (a changed update: the item is always written under the default key)
updateConfigDefaultKey ==
    /\ steps < MaxConfigSteps
    /\ steps' = steps + 1
    /\ \E newConfig \in Updates :
        LET base   == IF hook.config # Null THEN hook.config
                      ELSE Spread(INTERNAL_DEFAULTS,
                                  IF hook.initialConfigRef = Null THEN << >>
                                  ELSE hook.initialConfigRef)
            merged == Spread(base, newConfig)
        IN  /\ localStorage' = [localStorage EXCEPT ![DEFAULT_STORAGE_KEY] = JSONstringify(merged)]
            /\ hook' = usePrinterConfig(hook, merged, "update")
    /\ UNCHANGED << pdfVars, printVars, loaderVars, workerVars, previewVars >>

\* updateConfig(newConfig), the setItem succeeding, and the render it causes
updateConfig ==
    /\ steps < MaxConfigSteps
    /\ steps' = steps + 1
    /\ \E newConfig \in Updates :
        LET base   == IF hook.config # Null THEN hook.config
                      ELSE Spread(INTERNAL_DEFAULTS,
                                  IF hook.initialConfigRef = Null THEN << >>
                                  ELSE hook.initialConfigRef)
            merged == Spread(base, newConfig)
        IN  /\ localStorage' = [localStorage EXCEPT ![hook.storageKey] = JSONstringify(merged)]
            /\ hook' = usePrinterConfig(hook, merged, "update")
    /\ UNCHANGED << pdfVars, printVars, loaderVars, workerVars, previewVars >>

\* (a changed reset: the config is cleared whatever initialConfig was)
resetConfigToNull ==
    /\ steps < MaxConfigSteps
    /\ steps' = steps + 1
    /\ hook' = usePrinterConfig(hook, Null, "reset")
    /\ localStorage' = [localStorage EXCEPT ![hook.storageKey] = NoItem]
    /\ UNCHANGED << pdfVars, printVars, loaderVars, workerVars, previewVars >>

\* resetConfig(), the removeItem succeeding, and the render it causes
resetConfig ==
    /\ steps < MaxConfigSteps
    /\ steps' = steps + 1
    /\ hook' = usePrinterConfig(hook, hook.initialConfigRef, "reset")
    /\ localStorage' = [localStorage EXCEPT ![hook.storageKey] = NoItem]
    /\ UNCHANGED << pdfVars, printVars, loaderVars, workerVars, previewVars >>

\* a render with another storageKey: prevStorageKey !== storageKey, so the
\* state is set anew from the item under the new key
ChangeStorageKey ==
    /\ steps < MaxConfigSteps
    /\ steps' = steps + 1
    /\ \E key \in StorageKeys \ {hook.storageKey} :
        LET cfg == loadFromStorage(localStorage, key, hook.initialConfig)
        IN  hook' = usePrinterConfig(
                        [hook EXCEPT !.storageKey = key, !.loaded = cfg, !.updated = FALSE,
                                     !.keyChanges = @ + 1],
                        cfg, "key")
    /\ UNCHANGED localStorage
    /\ UNCHANGED << pdfVars, printVars, loaderVars, workerVars, previewVars >>

\* the component is unmounted and mounted again with the same options
Remount ==
    /\ steps < MaxConfigSteps
    /\ steps' = steps + 1
    /\ hook' = Mount(localStorage, hook.storageKey, hook.initialConfig)
    /\ UNCHANGED localStorage
    /\ UNCHANGED << pdfVars, printVars, loaderVars, workerVars, previewVars >>

InitConfig ==
    /\ NoPdf
    /\ printerConfig = Null
    /\ rerenders = 0
    /\ isLoading = FALSE
    /\ hookError = "null"
    /\ ops = << >>
    /\ jobs = << >>
    /\ state = IdleLoaderState
    /\ epson = FALSE
    /\ scripts = << >>
    /\ loads = << >>
    /\ calls = << >>
    /\ resets = 0
    /\ NoWorker
    /\ NoPreview
    /\ steps = 0
    /\ localStorage \in [StorageKeys -> StoredItems]
    /\ \E key \in StorageKeys, initialConfig \in InitialConfigs :
        hook = Mount(localStorage, key, initialConfig)

NextConfig == updateConfig \/ resetConfig \/ ChangeStorageKey \/ Remount

SpecConfig == InitConfig /\ [][NextConfig]_vars


(***************************************************************************)
(* The PDF.js worker source (SpecWorker).  pdfjs-dist is one module with   *)
(* one GlobalWorkerOptions object, whoever imports it; pdf.js reads        *)
(* workerSrc when getDocument starts the worker.  An empty string stands   *)
(* for null and undefined as well: the code only tests these for truth.    *)
(***************************************************************************)
\* the unpkg URL of the worker for the installed pdfjs-dist version
PDFJS_CDN_WORKER_URL == "https://unpkg.com/pdfjs-dist@4/build/pdf.worker.min.mjs"

WorkerSrcs == {"/assets/pdf.worker.min.mjs", "/vendor/pdf.worker.mjs"}

PdfFunctions == {"processPdfFile", "pdfToCanvases"}

MaxPdfCalls == 2

MaxConfigures == 2

\* a call as pdfCalls records it: configured is the source configured when
\* the call was made, and for a processing call that reached getDocument,
\* workerSrc is the source the worker was started from and current the
\* source configured at that moment
PdfCallRecord(fn, pcOfCall, configured) ==
    [fn |-> fn, pc |-> pcOfCall, configured |-> configured, workerSrc |-> "", current |-> ""]

\* what configurePdfWorker leaves in GlobalWorkerOptions
configurePdfWorkerNow(gwo, lib, workerSrc) ==
    IF lib THEN [gwo EXCEPT !.workerSrc = workerSrc] ELSE gwo

configurePdfWorker ==
    /\ Len(SelectSeq(pdfCalls, LAMBDA c : c.fn = "configurePdfWorker")) < MaxConfigures
    /\ \E workerSrc \in WorkerSrcs :
        /\ customWorkerSrc' = workerSrc
        /\ GlobalWorkerOptions' = configurePdfWorkerNow(GlobalWorkerOptions, pdfjsLib, workerSrc)
        /\ pdfCalls' = Append(pdfCalls, PdfCallRecord("configurePdfWorker", "done", workerSrc))
    /\ UNCHANGED << pdfjsLib, previewLoaded >>
    /\ UNCHANGED << pdfVars, printVars, loaderVars, configVars, previewVars >>

\* a processing function is called: processPdfFile awaits getPdfJs, which
\* returns the module at once if it is loaded; pdfToCanvases always awaits
\* its own import
PdfCall ==
    /\ Len(SelectSeq(pdfCalls, LAMBDA c : c.fn \in PdfFunctions)) < MaxPdfCalls
    /\ \E fn \in PdfFunctions :
        pdfCalls' = Append(pdfCalls,
            PdfCallRecord(fn, IF fn = "processPdfFile" /\ pdfjsLib THEN "ready" ELSE "import",
                          customWorkerSrc))
    /\ UNCHANGED << customWorkerSrc, pdfjsLib, GlobalWorkerOptions, previewLoaded >>
    /\ UNCHANGED << pdfVars, printVars, loaderVars, configVars, previewVars >>

\* getPdfJs after its import: the worker is set only if none is set
getPdfJs ==
    \E i \in DOMAIN pdfCalls :
        /\ pdfCalls[i].fn = "processPdfFile"
        /\ pdfCalls[i].pc = "import"
        /\ pdfjsLib' = TRUE
        /\ GlobalWorkerOptions' =
               IF GlobalWorkerOptions.workerSrc = ""
               THEN [GlobalWorkerOptions EXCEPT !.workerSrc =
                        IF customWorkerSrc # "" THEN customWorkerSrc ELSE PDFJS_CDN_WORKER_URL]
               ELSE GlobalWorkerOptions
        /\ pdfCalls' = [pdfCalls EXCEPT ![i].pc = "ready"]
        /\ UNCHANGED << customWorkerSrc, previewLoaded >>
        /\ UNCHANGED << pdfVars, printVars, loaderVars, configVars, previewVars >>

\* pdfToCanvases after its import: the worker is set to the CDN URL
pdfToCanvases ==
    \E i \in DOMAIN pdfCalls :
        /\ pdfCalls[i].fn = "pdfToCanvases"
        /\ pdfCalls[i].pc = "import"
        /\ GlobalWorkerOptions' = [GlobalWorkerOptions EXCEPT !.workerSrc = PDFJS_CDN_WORKER_URL]
        /\ pdfCalls' = [pdfCalls EXCEPT ![i].pc = "ready"]
        /\ UNCHANGED << customWorkerSrc, pdfjsLib, previewLoaded >>
        /\ UNCHANGED << pdfVars, printVars, loaderVars, configVars, previewVars >>

\* getDocument starts the worker from the source set at this moment
getDocument ==
    \E i \in DOMAIN pdfCalls :
        /\ pdfCalls[i].pc = "ready"
        /\ pdfCalls' = [pdfCalls EXCEPT ![i].pc = "done",
                                        ![i].workerSrc = GlobalWorkerOptions.workerSrc,
                                        ![i].current = customWorkerSrc]
        /\ UNCHANGED << customWorkerSrc, pdfjsLib, GlobalWorkerOptions, previewLoaded >>
        /\ UNCHANGED << pdfVars, printVars, loaderVars, configVars, previewVars >>

\* the application imports the PdfPreview component: its module sets the
\* worker to the CDN URL when it is evaluated
ImportPdfPreview ==
    /\ ~previewLoaded
    /\ previewLoaded' = TRUE
    /\ GlobalWorkerOptions' = [GlobalWorkerOptions EXCEPT !.workerSrc = PDFJS_CDN_WORKER_URL]
    /\ UNCHANGED << customWorkerSrc, pdfjsLib, pdfCalls >>
    /\ UNCHANGED << pdfVars, printVars, loaderVars, configVars, previewVars >>

InitWorker ==
    /\ NoPdf
    /\ printerConfig = Null
    /\ rerenders = 0
    /\ isLoading = FALSE
    /\ hookError = "null"
    /\ ops = << >>
    /\ jobs = << >>
    /\ localStorage = << >>
    /\ hook = << >>
    /\ steps = 0
    /\ state = IdleLoaderState
    /\ epson = FALSE
    /\ scripts = << >>
    /\ loads = << >>
    /\ calls = << >>
    /\ resets = 0
    /\ NoWorker
    /\ NoPreview

NextWorker ==
    configurePdfWorker \/ PdfCall \/ getPdfJs \/ pdfToCanvases \/ getDocument \/ ImportPdfPreview

SpecWorker == InitWorker /\ [][NextWorker]_vars


(***************************************************************************)
(* The job printPages builds (SpecPages).  A builder is the sequence of    *)
(* commands added to it; the text of a header or footer stands for the     *)
(* text plus its line feed.  An absent header or footer and the empty      *)
(* string are the same to the code, which tests them for truth.            *)
(***************************************************************************)
MaxPrintPages == 2

CanvasIds == << "c1", "c2", "c3" >>

\* the canvases handed to printPages; ctx tells whether getContext('2d')
\* returns a context for the canvas
PageCanvases ==
    UNION { { [i \in 1 .. n |-> [id |-> CanvasIds[i], ctx |-> f[i]]] : f \in [1 .. n -> BOOLEAN] } :
            n \in 0 .. MaxPrintPages }

PagesOptions == [header : {"", "Ticket"}, footer : {"", "Gracias"}, pageSeparator : BOOLEAN]

Command(cmd, arg) == [cmd |-> cmd, arg |-> arg]

SeparatorCommands ==
    << Command("addFeedLine", "2"), Command("addTextAlign", "center"),
       Command("addText", "- - - - - - - - - -"), Command("addFeedLine", "2") >>

\* if (options?.header) { ... }
AddHeader(builder, options) ==
    IF options.header # ""
    THEN builder \o << Command("addTextAlign", "center"), Command("addTextStyle", "bold"),
                       Command("addTextSize", "2x2"), Command("addText", options.header),
                       Command("addTextSize", "1x1"), Command("addTextStyle", "normal"),
                       Command("addFeedLine", "1") >>
    ELSE builder

\* the body of canvases.forEach for the canvas at index (counted from 1)
AddPage(builder, canvases, index, options) ==
    LET withImage == IF canvases[index].ctx
                     THEN builder \o << Command("addTextAlign", "center"),
                                        Command("addImage", canvases[index].id) >>
                     ELSE builder
    IN  IF options.pageSeparator /\ index - 1 < Len(canvases) - 1
        THEN withImage \o SeparatorCommands
        ELSE withImage

RECURSIVE AddPages(_, _, _, _)
\* canvases.forEach from index on
AddPages(builder, canvases, index, options) ==
    IF index > Len(canvases) THEN builder
    ELSE AddPages(AddPage(builder, canvases, index, options), canvases, index + 1, options)

\* if (options?.footer) { ... }
AddFooter(builder, options) ==
    IF options.footer # ""
    THEN builder \o << Command("addFeedLine", "1"), Command("addTextAlign", "center"),
                       Command("addText", options.footer) >>
    ELSE builder

\* builder.addFeedLine(3); if (this.printOptions.cut) builder.addCut('feed')
AddFeedAndCut(builder, cut) ==
    IF cut THEN builder \o << Command("addFeedLine", "3"), Command("addCut", "feed") >>
    ELSE builder \o << Command("addFeedLine", "3") >>

\* the commands of the builder when printPages calls toString
BuildPagesJob(canvases, options, cut) ==
    AddFeedAndCut(AddFooter(AddPages(AddHeader(<< >>, options), canvases, 1, options), options),
                  cut)

\* the builder is filled
PagesBuild ==
    /\ pagesCall.pc = "called"
    /\ pagesCall' = [pagesCall EXCEPT
           !.pc = "built",
           !.builder = BuildPagesJob(pagesCall.canvases, pagesCall.options, pagesCall.cut)]
    /\ UNCHANGED << pdfPreview, loadPdfs >>
    /\ UNCHANGED << pdfVars, printVars, loaderVars, configVars, workerVars >>

\* printer.send(xml) with the XML of the builder
PagesSend ==
    /\ pagesCall.pc = "built"
    /\ pagesCall' = [pagesCall EXCEPT !.pc = "sent", !.sent = << pagesCall.builder >>]
    /\ UNCHANGED << pdfPreview, loadPdfs >>
    /\ UNCHANGED << pdfVars, printVars, loaderVars, configVars, workerVars >>

InitPages ==
    /\ NoPdf
    /\ printerConfig = Null
    /\ rerenders = 0
    /\ isLoading = FALSE
    /\ hookError = "null"
    /\ ops = << >>
    /\ jobs = << >>
    /\ localStorage = << >>
    /\ hook = << >>
    /\ steps = 0
    /\ state = IdleLoaderState
    /\ epson = FALSE
    /\ scripts = << >>
    /\ loads = << >>
    /\ calls = << >>
    /\ resets = 0
    /\ customWorkerSrc = ""
    /\ pdfjsLib = FALSE
    /\ GlobalWorkerOptions = [workerSrc |-> ""]
    /\ previewLoaded = FALSE
    /\ pdfCalls = << >>
    /\ pdfPreview = << >>
    /\ loadPdfs = << >>
    /\ \E canvases \in PageCanvases, options \in PagesOptions, cut \in BOOLEAN :
        pagesCall = [canvases |-> canvases, options |-> options, cut |-> cut,
                     pc |-> "called", builder |-> << >>, sent |-> << >>]

NextPages == PagesBuild \/ PagesSend

SpecPages == InitPages /\ [][NextPages]_vars


(***************************************************************************)
(* The PdfPreview component (SpecPreview).  Each run of the component's    *)
(* second effect with a file starts one loadPdf with its own cancelled     *)
(* flag, which the effect's cleanup sets.  A processed page is recorded as *)
(* the file, the page number and the paperWidth it was processed for; a    *)
(* changed pdfProcessing or onPagesLoaded prop re-runs the effect exactly  *)
(* as a changed paperWidth does.                                           *)
(***************************************************************************)
MaxPdfLoads == 2

PreviewFiles == {"a.pdf", "b.pdf"}

PaperWidths == {576, 384}

\* pdf.numPages of the files
numPages(file) == IF file = "a.pdf" THEN 2 ELSE 1

\* the cleanup of the second effect: cancelled = true in the closure of the
\* loadPdf the effect started, if the effect ran with a file
Cleanup(started, file) ==
    IF file # "none" /\ started # << >>
    THEN [started EXCEPT ![Len(started)].cancelled = TRUE]
    ELSE started

\* (a changed end of loadPdf: the results are set without the check)
DeliverUnchecked(view, call) ==
    [view EXCEPT !.pages = call.loadedPages, !.currentPage = 0,
                 !.delivered = Append(@, call.loadedPages)]

\* after the page loop: if (cancelled) return; setPages; setCurrentPage(0);
\* onPagesLoaded(loadedPages)
Deliver(view, call) ==
    IF call.cancelled THEN view
    ELSE [view EXCEPT !.pages = call.loadedPages, !.currentPage = 0,
                      !.delivered = Append(@, call.loadedPages)]

\* the catch block: if (cancelled) return; setError(message)
CatchError(view, call) ==
    IF call.cancelled THEN view ELSE [view EXCEPT !.error = "Error al cargar el PDF"]

\* the finally block: if (!cancelled) setLoading(false)
Finally(view, call) ==
    IF ~call.cancelled THEN [view EXCEPT !.loading = FALSE] ELSE view

\* a render with a changed file or paperWidth: the cleanups of the previous
\* render's effects run (the first effect's cleanup exists if the file was
\* null and runs if the file changed), then the second effect starts
\* loadPdf if there is a file: setLoading(true), setError(null)
PreviewProps ==
    /\ pdfPreview.mounted
    /\ \E file \in PreviewFiles \cup {"none"}, paperWidth \in PaperWidths :
        /\ << file, paperWidth >> # << pdfPreview.file, pdfPreview.paperWidth >>
        /\ file # "none" => Len(loadPdfs) < MaxPdfLoads
        /\ LET cleaned == IF pdfPreview.file = "none" /\ file # "none"
                          THEN [pdfPreview EXCEPT !.pages = << >>, !.currentPage = 0]
                          ELSE pdfPreview
               props   == [cleaned EXCEPT !.file = file, !.paperWidth = paperWidth]
           IN  IF file = "none"
               THEN /\ pdfPreview' = props
                    /\ loadPdfs' = Cleanup(loadPdfs, pdfPreview.file)
               ELSE /\ pdfPreview' = [props EXCEPT !.loading = TRUE, !.error = "null"]
                    /\ loadPdfs' = Append(Cleanup(loadPdfs, pdfPreview.file),
                                          [file |-> file, paperWidth |-> paperWidth,
                                           cancelled |-> FALSE, pc |-> "decode",
                                           pageNum |-> 0, loadedPages |-> << >>])
    /\ UNCHANGED pagesCall
    /\ UNCHANGED << pdfVars, printVars, loaderVars, configVars, workerVars >>

\* the component is unmounted: the cleanups run; state setters of an
\* unmounted component have no effect
PreviewUnmount ==
    /\ pdfPreview.mounted
    /\ pdfPreview' = [pdfPreview EXCEPT !.mounted = FALSE]
    /\ loadPdfs' = Cleanup(loadPdfs, pdfPreview.file)
    /\ UNCHANGED pagesCall
    /\ UNCHANGED << pdfVars, printVars, loaderVars, configVars, workerVars >>

\* file.arrayBuffer() and getDocument resolve: if (cancelled) return, with
\* the finally block on the way out
Decoded ==
    /\ \E i \in DOMAIN loadPdfs :
        /\ loadPdfs[i].pc = "decode"
        /\ IF loadPdfs[i].cancelled
           THEN /\ loadPdfs' = [loadPdfs EXCEPT ![i].pc = "done"]
                /\ pdfPreview' = Finally(pdfPreview, loadPdfs[i])
           ELSE /\ loadPdfs' = [loadPdfs EXCEPT ![i].pc = "pages", ![i].pageNum = 1]
                /\ UNCHANGED pdfPreview
    /\ UNCHANGED pagesCall
    /\ UNCHANGED << pdfVars, printVars, loaderVars, configVars, workerVars >>

\* getDocument, getPage or processPdfPage rejects: catch, then finally
LoadPdfFails ==
    /\ \E i \in DOMAIN loadPdfs :
        /\ loadPdfs[i].pc \in {"decode", "pages"}
        /\ loadPdfs' = [loadPdfs EXCEPT ![i].pc = "done"]
        /\ pdfPreview' = Finally(CatchError(pdfPreview, loadPdfs[i]), loadPdfs[i])
    /\ UNCHANGED pagesCall
    /\ UNCHANGED << pdfVars, printVars, loaderVars, configVars, workerVars >>

\* getPage and processPdfPage resolve for the current page: the page is
\* pushed; after the last page the results are delivered
PageProcessed ==
    /\ \E i \in DOMAIN loadPdfs :
        /\ loadPdfs[i].pc = "pages"
        /\ LET call   == loadPdfs[i]
               pushed == [call EXCEPT !.loadedPages =
                             Append(@, [file |-> call.file, page |-> call.pageNum,
                                        targetWidth |-> call.paperWidth])]
           IN  IF call.pageNum < numPages(call.file)
               THEN /\ loadPdfs' = [loadPdfs EXCEPT ![i] = [pushed EXCEPT !.pageNum = @ + 1]]
                    /\ UNCHANGED pdfPreview
               ELSE /\ loadPdfs' = [loadPdfs EXCEPT ![i] = [pushed EXCEPT !.pc = "done"]]
                    /\ pdfPreview' = Finally(Deliver(pdfPreview, pushed), pushed)
    /\ UNCHANGED pagesCall
    /\ UNCHANGED << pdfVars, printVars, loaderVars, configVars, workerVars >>

\* the component after its first render, with or without a file
InitPreview ==
    /\ NoPdf
    /\ printerConfig = Null
    /\ rerenders = 0
    /\ isLoading = FALSE
    /\ hookError = "null"
    /\ ops = << >>
    /\ jobs = << >>
    /\ localStorage = << >>
    /\ hook = << >>
    /\ steps = 0
    /\ state = IdleLoaderState
    /\ epson = FALSE
    /\ scripts = << >>
    /\ loads = << >>
    /\ calls = << >>
    /\ resets = 0
    /\ NoWorker
    /\ pagesCall = << >>
    /\ \E file \in PreviewFiles \cup {"none"}, paperWidth \in PaperWidths :
        /\ pdfPreview = [mounted |-> TRUE, file |-> file, paperWidth |-> paperWidth,
                         pages |-> << >>, currentPage |-> 0, loading |-> file # "none",
                         error |-> "null", delivered |-> << >>]
        /\ loadPdfs = IF file = "none" THEN << >>
                      ELSE << [file |-> file, paperWidth |-> paperWidth, cancelled |-> FALSE,
                               pc |-> "decode", pageNum |-> 0, loadedPages |-> << >>] >>

NextPreview == PreviewProps \/ PreviewUnmount \/ Decoded \/ LoadPdfFails \/ PageProcessed

SpecPreview == InitPreview /\ [][NextPreview]_vars


(***************************************************************************)
(* Properties of canvasToRasterData (SpecRaster).                          *)
(***************************************************************************)
CeilDiv8(w) == CHOOSE k \in 0..w : 8 * k >= w /\ 8 * (k - 1) < w

\* the bit that the raster buffer holds for column x of row y, read at the
\* byte and bit position the printer reads it
StoredBit(x, y) ==
    LET byte == rasterData[y * CeilDiv8(finalCanvas.width) + (x \div 8) + 1]
    IN  (byte \div (2 ^ (7 - (x % 8)))) % 2

Rastered == pc = "done"

\* C1: every real pixel (x, y) is ink (bit 1) exactly if its luminance
\* 0.299 R + 0.587 G + 0.114 B is below the threshold, that is
\* 299 R + 587 G + 114 B < 1000 * threshold.
C1_LuminanceBelowThreshold ==
    Rastered =>
        \A y \in 0..(finalCanvas.height - 1), x \in 0..(finalCanvas.width - 1) :
            LET p == PixelAt(finalCanvas, x, y)
            IN  StoredBit(x, y) = 1 <=>
                  299 * p[1] + 587 * p[2] + 114 * p[3] < 1000 * mergedConfig.monochromeThreshold

\* C2: the bit of column x of row y is stored most-significant-bit first in
\* byte y * (paddedWidth / 8) + floor(x / 8), bit 7 - (x mod 8); the bytes of
\* a row hold bits of that row only.
C2_MsbFirstRowMajor ==
    Rastered =>
        /\ \A y \in 0..(finalCanvas.height - 1), x \in 0..(finalCanvas.width - 1) :
              StoredBit(x, y) = isBlack(PixelAt(finalCanvas, x, y), mergedConfig.monochromeThreshold)
        /\ \A i \in DOMAIN rasterData :
              LET bpl == CeilDiv8(finalCanvas.width)
                  y   == (i - 1) \div bpl
              IN  \A k \in 0..7 :
                     (rasterData[i] \div (2 ^ k)) % 2 = 1 =>
                         \E x \in 0..(finalCanvas.width - 1) :
                             isBlack(PixelAt(finalCanvas, x, y), mergedConfig.monochromeThreshold) = 1

C2_Witness ==
    /\ Rastered
    /\ finalCanvas.width = 9
    /\ finalCanvas.height = 2
    /\ rasterData = << 64, 0, 0, 255 >>

\* C3: the raster buffer has exactly ceil(width / 8) * height bytes.
C3_RasterLength ==
    Rastered => Len(rasterData) = CeilDiv8(finalCanvas.width) * finalCanvas.height

C3_Witness ==
    /\ Rastered
    /\ finalCanvas.width = 8
    /\ finalCanvas.height = 2
    /\ Len(rasterData) = 2

\* C4: every padding column x, width <= x < ceil(width / 8) * 8, carries the
\* bit of the last real column of its row.
C4_PaddingReplicatesLastColumn ==
    Rastered =>
        \A y \in 0..(finalCanvas.height - 1) :
            \A x \in finalCanvas.width..(8 * CeilDiv8(finalCanvas.width) - 1) :
                StoredBit(x, y) = StoredBit(finalCanvas.width - 1, y)

C4_Witness ==
    /\ Rastered
    /\ finalCanvas.width = 3
    /\ finalCanvas.height = 2
    /\ rasterData = << 63, 128 >>


(***************************************************************************)
(* Properties of trimCanvasMargins (SpecTrim).                             *)
(***************************************************************************)
Trimmed == pc = "trimmed"

\* the non-white cells of the rendered page: some of R, G, B below 250
ContentCells ==
    {c \in Cells(highResCanvas.width, highResCanvas.height) :
        \E k \in 1..3 : PixelAt(highResCanvas, c[1], c[2])[k] < 250}

\* the box of the claims: first/last content row and column, widened by the
\* margins and clamped to the bitmap; the whole bitmap if there is no content
ExpectedBox ==
    LET m == mergedConfig.trimMargins
        cc == ContentCells
        rows == {c[2] : c \in cc}
        cols == {c[1] : c \in cc}
        t == CHOOSE y \in rows : \A u \in rows : y <= u
        b == CHOOSE y \in rows : \A u \in rows : y >= u
        l == CHOOSE x \in cols : \A u \in cols : x <= u
        r == CHOOSE x \in cols : \A u \in cols : x >= u
    IN  IF cc = {}
        THEN [top |-> 0, bottom |-> highResCanvas.height - 1,
              left |-> 0, right |-> highResCanvas.width - 1]
        ELSE [top    |-> IF t - m.top < 0 THEN 0 ELSE t - m.top,
              bottom |-> IF b + m.bottom > highResCanvas.height - 1
                         THEN highResCanvas.height - 1 ELSE b + m.bottom,
              left   |-> IF l - m.left < 0 THEN 0 ELSE l - m.left,
              right  |-> IF r + m.right > highResCanvas.width - 1
                         THEN highResCanvas.width - 1 ELSE r + m.right]

BoxWidth(box) == box.right - box.left + 1

BoxHeight(box) == box.bottom - box.top + 1

SamePixels(a, b) == a.width = b.width /\ a.height = b.height /\ a.pixels = b.pixels

\* C5: for a bitmap with a non-white pixel the output is no larger than the
\* input, and a crop is exactly the content box widened by the margins and
\* clamped to the bitmap.
C5_CropIsContentBoxPlusMargins ==
    (Trimmed /\ ContentCells # {}) =>
        /\ processedCanvas.width <= highResCanvas.width
        /\ processedCanvas.height <= highResCanvas.height
        /\ processedCanvas.id = "cropped" =>
              LET box == ExpectedBox
              IN  /\ processedCanvas.width = BoxWidth(box)
                  /\ processedCanvas.height = BoxHeight(box)
                  /\ \A c \in Cells(BoxWidth(box), BoxHeight(box)) :
                        PixelAt(processedCanvas, c[1], c[2])
                            = PixelAt(highResCanvas, box.left + c[1], box.top + c[2])

\* a crop whose box was clamped at the left edge and widened at the right
C5_Witness ==
    /\ Trimmed
    /\ processedCanvas.id = "cropped"
    /\ highResCanvas.width = 13
    /\ highResCanvas.height = 2
    /\ mergedConfig.trimMargins = [top |-> 2, bottom |-> 0, left |-> 0, right |-> 1]
    /\ ContentCells = {<< 0, 1 >>}
    /\ processedCanvas.width = 2
    /\ processedCanvas.height = 2

\* C6 as stated: the original is returned exactly if the box covers at least
\* (original - 10) pixels in both dimensions, which is to be exactly when
\* trimming would remove less than 10 pixels.
C6_OriginalIffLessThanTenRemoved ==
    Trimmed =>
        LET box == ExpectedBox
        IN  /\ processedCanvas = highResCanvas
                  <=> /\ BoxWidth(box) >= highResCanvas.width - 10
                      /\ BoxHeight(box) >= highResCanvas.height - 10
            /\ processedCanvas = highResCanvas
                  <=> /\ highResCanvas.width - BoxWidth(box) < 10
                      /\ highResCanvas.height - BoxHeight(box) < 10

\* C6 (amended): the original is returned exactly if the box covers at least
\* (original - 10) pixels in both width and height, that is when trimming
\* would remove at most 10 pixels of either; otherwise a crop is returned.
C6_OriginalIffAtMostTenRemoved ==
    Trimmed =>
        LET box == ExpectedBox
        IN  /\ processedCanvas = highResCanvas
                  <=> /\ BoxWidth(box) >= highResCanvas.width - 10
                      /\ BoxHeight(box) >= highResCanvas.height - 10
            /\ processedCanvas # highResCanvas => processedCanvas.id = "cropped"

\* exactly ten columns of slack: the original comes back
C6_Witness ==
    /\ Trimmed
    /\ highResCanvas.width - BoxWidth(ExpectedBox) = 10
    /\ processedCanvas = highResCanvas

\* C7: a blank bitmap (no R, G or B below 250) has the full bounds as its
\* box and comes back as the original, whatever the margins.
C7_BlankPageReturnsOriginal ==
    (Trimmed /\ ContentCells = {}) =>
        /\ TrimBox(highResCanvas, mergedConfig.trimMargins)
              = [top |-> 0, bottom |-> highResCanvas.height - 1,
                 left |-> 0, right |-> highResCanvas.width - 1]
        /\ processedCanvas = highResCanvas

\* a blank 13 x 2 page that mixes the two whites, zero margins
C7_Witness ==
    /\ Trimmed
    /\ ContentCells = {}
    /\ highResCanvas.width = 13
    /\ highResCanvas.height = 2
    /\ PixelAt(highResCanvas, 0, 0) = White
    /\ PixelAt(highResCanvas, 12, 1) = OffWhite
    /\ mergedConfig.trimMargins.left = 0
    /\ processedCanvas.width = 13

\* C8: trimming the trimmed bitmap again with the same margins gives the
\* same dimensions and pixels.
C8_TrimIdempotent ==
    Trimmed =>
        SamePixels(trimCanvasMargins(processedCanvas, mergedConfig.trimMargins), processedCanvas)

\* the second trim works on a crop that is itself long enough to be cropped
C8_Witness ==
    /\ Trimmed
    /\ processedCanvas.id = "cropped"
    /\ processedCanvas.width = 12
    /\ mergedConfig.trimMargins.left = 0
    /\ mergedConfig.trimMargins.right = 1
    /\ NonWhite(PixelAt(processedCanvas, 0, 0))
    /\ ~NonWhite(PixelAt(processedCanvas, 1, 0))
    /\ ~NonWhite(PixelAt(processedCanvas, 11, 0))


(***************************************************************************)
(* Properties of processPdfPage (Spec).                                    *)
(***************************************************************************)
Scaling == mergedConfig.enabled /\ mergedConfig.targetWidth # 0

\* C9: with processing enabled and target width w, the scaled bitmap is
\* exactly w wide and round(w * h / bw) high (half rounds up), bw x h being
\* the bitmap that is scaled.
C9_ScaledHeightIsRoundedProportion ==
    (pc \in {"scaled", "done", "failed"} /\ Scaling) =>
        LET w  == mergedConfig.targetWidth
            bw == processedCanvas.width
            h  == processedCanvas.height
        IN  /\ finalCanvas.width = w
            /\ finalCanvas.height = (2 * w * h + bw) \div (2 * bw)

StageRank(stage) ==
    CASE stage = "render" -> 1
      [] stage = "trim" -> 2
      [] stage = "scale" -> 3
      [] stage = "preview" -> 4
      [] stage = "raster" -> 5

\* C10: the stages run in the order render, trim, scale, and the preview,
\* the raster payload, the canvas, the width and the height returned all
\* come from the final bitmap; the raster rows are ceil(width / 8) * 8 bits
\* wide while the width returned is the unpadded one.
C10_ResultFromFinalBitmap ==
    /\ \A i, j \in DOMAIN log : i < j => StageRank(log[i]) < StageRank(log[j])
    /\ pc = "done" =>
          /\ log = << "render" >> \o (IF mergedConfig.enabled THEN << "trim" >> ELSE << >>)
                      \o (IF Scaling THEN << "scale" >> ELSE << >>) \o << "preview", "raster" >>
          /\ finalCanvas.id = (IF Scaling THEN "scaled" ELSE processedCanvas.id)
          /\ result.canvas = finalCanvas
          /\ result.width = finalCanvas.width
          /\ result.height = finalCanvas.height
          /\ result.base64.width = finalCanvas.width
          /\ result.base64.height = finalCanvas.height
          /\ result.base64.data = finalCanvas.pixels
          /\ result.rasterBase64 = btoa(rasterData)
          /\ 8 * Len(rasterData) = (8 * CeilDiv8(result.width)) * result.height
          /\ \A y \in 0..(result.height - 1), x \in 0..(result.width - 1) :
                StoredBit(x, y)
                    = isBlack(PixelAt(finalCanvas, x, y), mergedConfig.monochromeThreshold)

\* a page that was cropped, then scaled to a width that is no multiple of 8
C10_Witness ==
    /\ pc = "done"
    /\ log = << "render", "trim", "scale", "preview", "raster" >>
    /\ processedCanvas.id = "cropped"
    /\ finalCanvas.id = "scaled"
    /\ result.width = 3
    /\ result.height = 3
    /\ Len(rasterData) = 3

\* C17: for a rendered bitmap at least 1 x 1, any margins and a target
\* width of at least 1, the trimmed bitmap and the final bitmap are at least
\* 1 x 1.
C17_StageBitmapsPositive ==
    (highResCanvas.width >= 1 /\ highResCanvas.height >= 1 /\ mergedConfig.targetWidth >= 1) =>
        /\ pc \in {"trimmed", "scaled", "done", "failed"} =>
              processedCanvas.width >= 1 /\ processedCanvas.height >= 1
        /\ pc \in {"scaled", "done", "failed"} =>
              finalCanvas.width >= 1 /\ finalCanvas.height >= 1

\* C11: with enabled = false, whatever the margins and the target width,
\* neither trim nor scale runs: the bitmap rasterized is the rendered one,
\* rasterization does run, and the width and height returned are those of
\* the rendered bitmap.
C11_DisabledSkipsTrimAndScale ==
    (pc \in {"trimmed", "scaled", "done", "failed"} /\ log # << "render" >>
        /\ ~mergedConfig.enabled) =>
        /\ processedCanvas = highResCanvas
        /\ pc # "trimmed" => finalCanvas = highResCanvas
        /\ pc # "failed"
        /\ pc = "done" =>
              /\ log = << "render", "preview", "raster" >>
              /\ result.width = highResCanvas.width
              /\ result.height = highResCanvas.height
              /\ 8 * Len(rasterData) = 8 * CeilDiv8(highResCanvas.width) * highResCanvas.height
              /\ \A y \in 0..(highResCanvas.height - 1), x \in 0..(highResCanvas.width - 1) :
                    StoredBit(x, y)
                        = isBlack(PixelAt(highResCanvas, x, y), mergedConfig.monochromeThreshold)

\* a disabled config that names margins and a target width, on a page that
\* trimming would crop and scaling would resize
C11_Witness ==
    /\ pc = "done"
    /\ config.enabled = FALSE
    /\ config.targetWidth = 45
    /\ "trimMargins" \in DOMAIN config
    /\ config.trimMargins = [top |-> 0, bottom |-> 0, left |-> 0, right |-> 0]
    /\ highResCanvas.width = 13
    /\ NonWhite(PixelAt(highResCanvas, 0, 0))
    /\ result.width = 13
    /\ result.height = 1
    /\ Len(rasterData) = 2


(***************************************************************************)
(* Properties of processPdfPage on configs with fields left out            *)
(* (SpecPartial).                                                          *)
(***************************************************************************)
\* past the scale step of a page that rendered
PastScale == pc \in {"scaled", "done"} \/ (pc = "failed" /\ log # << "render" >>)

\* C13 as stated: if the config leaves out targetWidth the scale step is
\* skipped, and the final bitmap is as wide as the trimmed one.
C13_OmittedTargetWidthSkipsScale ==
    (PastScale /\ "targetWidth" \notin DOMAIN config) =>
        /\ finalCanvas.width = processedCanvas.width
        /\ finalCanvas = processedCanvas

\* C13 (amended): the scale step is skipped if the merged target width is
\* falsy (the caller passes 0), and the final bitmap is then the trimmed
\* bitmap; a target width left out is the default 576, and with processing
\* enabled the final bitmap is a scaled one 576 wide.
C13_FalsyTargetWidthSkipsScale ==
    PastScale =>
        /\ mergedConfig.targetWidth = 0 =>
              /\ finalCanvas = processedCanvas
              /\ \A i \in DOMAIN log : log[i] # "scale"
        /\ "targetWidth" \notin DOMAIN config =>
              /\ mergedConfig.targetWidth = 576
              /\ mergedConfig.enabled =>
                    finalCanvas.id = "scaled" /\ finalCanvas.width = 576

\* target width 0 on a page that was cropped: the crop is the final bitmap
C13_Witness ==
    /\ pc = "done"
    /\ "targetWidth" \in DOMAIN config
    /\ config.targetWidth = 0
    /\ mergedConfig.enabled
    /\ processedCanvas.id = "cropped"
    /\ processedCanvas.width = 101
    /\ result.canvas = processedCanvas
    /\ result.width = 101

\* the value the claim gives a top-level field and a margin
ExpectedField(f, default) == IF f \in DOMAIN config THEN config[f] ELSE default

ExpectedMargin(side) ==
    IF "trimMargins" \in DOMAIN config /\ side \in DOMAIN config.trimMargins
    THEN config.trimMargins[side] ELSE 8

ExpectedMargins ==
    [top |-> ExpectedMargin("top"), bottom |-> ExpectedMargin("bottom"),
     left |-> ExpectedMargin("left"), right |-> ExpectedMargin("right")]

\* C16: every field the caller leaves out has its default (enabled true,
\* targetWidth 576, scale 3, monochromeThreshold 160, each margin 8), every
\* field supplied is kept, and these are the values the stages use.
C16_OmittedFieldsTakeDefaults ==
    pc # "start" =>
        /\ mergedConfig.enabled = ExpectedField("enabled", TRUE)
        /\ mergedConfig.targetWidth = ExpectedField("targetWidth", 576)
        /\ mergedConfig.scale = ExpectedField("scale", 3)
        /\ mergedConfig.monochromeThreshold = ExpectedField("monochromeThreshold", 160)
        /\ mergedConfig.trimMargins = ExpectedMargins
        /\ pc \in {"rendered", "trimmed", "scaled", "done"} =>
              /\ highResCanvas.width = CurrentPage.width * ExpectedField("scale", 3)
              /\ highResCanvas.height = CurrentPage.height * ExpectedField("scale", 3)
        /\ pc \in {"trimmed", "scaled", "done"} =>
              processedCanvas =
                  IF ExpectedField("enabled", TRUE)
                  THEN trimCanvasMargins(highResCanvas, ExpectedMargins)
                  ELSE highResCanvas
        /\ pc \in {"scaled", "done"} =>
              finalCanvas.width =
                  IF ExpectedField("enabled", TRUE) /\ ExpectedField("targetWidth", 576) # 0
                  THEN ExpectedField("targetWidth", 576)
                  ELSE processedCanvas.width
        /\ pc = "done" =>
              rasterData = RasterData(finalCanvas, ExpectedField("monochromeThreshold", 160))

\* a config that names two margins and nothing else
C16_Witness ==
    /\ pc = "done"
    /\ config = [trimMargins |-> [top |-> 0, left |-> 2]]
    /\ mergedConfig.trimMargins = [top |-> 0, bottom |-> 8, left |-> 2, right |-> 8]
    /\ mergedConfig.enabled
    /\ highResCanvas.width = 576
    /\ processedCanvas.id = "cropped"
    /\ finalCanvas.width = 576
    /\ Len(rasterData) = 72 * finalCanvas.height

(***************************************************************************)
(* Properties of processPdfFile (SpecFile, SpecFileFair).                  *)
(***************************************************************************)
InvalidConfig(cfg) ==
    \/ "targetWidth" \in DOMAIN cfg /\ cfg.targetWidth <= 0
    \/ "monochromeThreshold" \in DOMAIN cfg /\ cfg.monochromeThreshold \notin 0..255

\* C12: with an invalid configuration (targetWidth <= 0 or a threshold
\* outside 0..255) processPdfFile fetches and renders no page and does not
\* resolve: the configuration is rejected first.
C12_InvalidConfigRejectedFirst ==
    InvalidConfig(config) => (events = << >> /\ filePc \notin {"page", "resolved"})

\* the event of page k failing, if any
Failures == {i \in DOMAIN events : events[i][1] = "fail"}

\* C14: once fetching or processing page k has failed, nothing more is
\* fetched or rendered, the loop does not go on, no array is returned, and
\* the call rejects.
C14_FailFast ==
    /\ [](\A i \in Failures :
             /\ i = Len(events)
             /\ events[i][2] = pageNum
             /\ filePc \in {"page", "rejected"}
             /\ Len(pages) = pageNum - 1)
    /\ [](filePc = "resolved" => Failures = {})
    /\ (Failures # {}) ~> (filePc = "rejected")

\* the second page of a document fails after the first one was processed
C14_Witness ==
    /\ filePc = "rejected"
    /\ Len(doc.pages) = 2
    /\ pageNum = 1
    /\ events = << << "getPage", 1 >>, << "renderStart", 1 >>, << "renderEnd", 1 >>,
                   << "fail", 1 >> >>
    /\ pages = << >>

EventPages(kind) ==
    LET sel == SelectSeq(events, LAMBDA e : e[1] = kind)
    IN  [i \in DOMAIN sel |-> sel[i][2]]

\* what processPdfPage returns for a page, a config and a resampling
ProcessedPageOf(page, cfg, sampler) ==
    LET m       == MergeConfig(cfg)
        rendered == RenderPage(page, m.scale)
        trimmed == IF m.enabled THEN trimCanvasMargins(rendered, m.trimMargins) ELSE rendered
        final   == IF m.enabled /\ m.targetWidth # 0
                   THEN ScaleCanvas(trimmed, m.targetWidth, sampler) ELSE trimmed
    IN  [base64       |-> toDataURL(final),
         width        |-> final.width,
         height       |-> final.height,
         rasterBase64 |-> btoa(RasterData(final, m.monochromeThreshold)),
         canvas       |-> final]

\* C15: the pages are fetched and rendered in the order 1, 2, ..., each
\* once, at most one render is in flight, and on success the array has one
\* element per page, element i being page i + 1 processed.
C15_PagesInOrderOnce ==
    /\ \A i \in DOMAIN EventPages("getPage") : EventPages("getPage")[i] = i
    /\ \A i \in DOMAIN EventPages("renderStart") : EventPages("renderStart")[i] = i
    /\ Len(EventPages("renderStart")) <= Len(EventPages("getPage"))
    /\ Len(EventPages("renderStart")) - Len(EventPages("renderEnd")) \in {0, 1}
    /\ filePc = "resolved" =>
          /\ Len(pages) = Len(doc.pages)
          /\ Len(EventPages("getPage")) = Len(doc.pages)
          /\ \A i \in DOMAIN pages :
                \E sampler \in Resamplers :
                    pages[i] = ProcessedPageOf(doc.pages[i], config, sampler)

\* a document of two different pages, both processed
C15_Witness ==
    /\ filePc = "resolved"
    /\ Len(pages) = 2
    /\ pages[1].width = 3
    /\ pages[2].width = 13
    /\ events = << << "getPage", 1 >>, << "renderStart", 1 >>, << "renderEnd", 1 >>,
                   << "getPage", 2 >>, << "renderStart", 2 >>, << "renderEnd", 2 >> >>


\* C29: trimCanvasMargins, the scaling step and canvasToRasterData leave the
\* bitmap they are given as it was, dimensions and pixels: the rendered
\* canvas after the trim (also when the trim returns it), the rendered and
\* the trimmed canvas after the scaling, all three after the rastering
C29_StagesKeepTheirInput ==
    [][/\ pc \in {"rendered", "trimmed", "scaled"} => highResCanvas' = highResCanvas
       /\ pc \in {"trimmed", "scaled"} => processedCanvas' = processedCanvas
       /\ pc = "scaled" => finalCanvas' = finalCanvas]_vars

\* a page whose trim returned the rendered canvas itself, then scaled and
\* rastered
C29_Witness ==
    /\ pc = "done"
    /\ mergedConfig.enabled
    /\ log = << "render", "trim", "scale", "preview", "raster" >>
    /\ processedCanvas = highResCanvas
    /\ finalCanvas.id = "scaled"
    /\ finalCanvas.width # processedCanvas.width

(***************************************************************************)
(* Properties of EposPrintService and useEpsonPrinter (SpecPrint).         *)
(***************************************************************************)
UsesHttps(cfg) == "useHttps" \in DOMAIN cfg /\ cfg.useHttps

\* C18: a service constructed with useHttps true connects over https, on
\* port 443 unless printerPort is given; with useHttps false or left out it
\* connects over http, on port 80 unless printerPort is given.
C18_UseHttpsSchemeAndPort ==
    \A i \in DOMAIN ops :
        (ops[i].pc \in {"sent", "returned"} /\ ops[i].url # NoUrl) =>
            LET cfg == ops[i].config
            IN  /\ ops[i].url.host = cfg.printerIP
                /\ ops[i].url.scheme = (IF UsesHttps(cfg) THEN "https" ELSE "http")
                /\ ops[i].url.port =
                       (IF "printerPort" \in DOMAIN cfg THEN cfg.printerPort
                        ELSE IF UsesHttps(cfg) THEN 443 ELSE 80)

\* C19: a call of any of the five operations while the hook's config is
\* null returns NOT_CONFIGURED (success false), creates no service, sends
\* nothing and leaves isLoading as it was.
C19_NullConfigNotConfigured ==
    [][(printerConfig = Null /\ Len(ops') = Len(ops) + 1) =>
          LET op == ops'[Len(ops')]
          IN  /\ op.result.success = FALSE
              /\ op.result.code = "NOT_CONFIGURED"
              /\ op.pc = "returned"
              /\ op.service = NoService
              /\ op.url = NoUrl
              /\ isLoading' = isLoading
              /\ \A j \in DOMAIN ops : ops'[j] = ops[j]]_vars

\* checkConnection called with a null config while a print started under
\* the previous config is still in progress
C19_Witness ==
    /\ printerConfig = Null
    /\ Len(ops) = 2
    /\ ops[1].kind = "print"
    /\ ops[1].pc = "sent"
    /\ ops[2].kind = "checkConnection"
    /\ ops[2].result = NOT_CONFIGURED_RESULT
    /\ ops[2].url = NoUrl
    /\ isLoading = TRUE



\* C27: isLoading is true whenever at least one operation started through
\* the hook has not yet completed, and false when none is in progress
C27_LoadingIffOperationPending ==
    isLoading = (\E i \in DOMAIN ops : ops[i].pc # "returned")

(***************************************************************************)
(* Properties of usePrinterConfig (SpecConfig).                            *)
(***************************************************************************)
\* C22: after any sequence of updateConfig and resetConfig calls,
\* initialising the hook again from localStorage (same storageKey, same
\* initialConfig) yields the config that is in memory
C22_PersistenceRoundTrip ==
    loadFromStorage(localStorage, hook.storageKey, hook.initialConfig) = hook.config

\* the field-wise merge: a stored field, else an initialConfig field, else
\* an internal default
MergedField(stored, initial, f) ==
    IF f \in DOMAIN stored THEN stored[f]
    ELSE IF initial # Null /\ f \in DOMAIN initial THEN initial[f]
    ELSE INTERNAL_DEFAULTS[f]

C24_ResetRestoresInitial ==
    hook.last = "reset" =>
        /\ hook.config = hook.initialConfig
        /\ localStorage[hook.storageKey] = NoItem

\* a reset after an update, with an initialConfig
C24_Witness ==
    /\ hook.last = "reset"
    /\ hook.updated
    /\ hook.initialConfig # Null
    /\ hook.config = hook.initialConfig
    /\ localStorage[hook.storageKey] = NoItem

\* C25: updateConfig and resetConfig write or remove only the entry under
\* the hook's storageKey, and a change of the storageKey writes nothing:
\* the entries under all other keys stay as they are
C25_OtherKeysUntouched ==
    [][/\ \A k \in StorageKeys \ {hook.storageKey} : localStorage'[k] = localStorage[k]
       /\ hook'.storageKey # hook.storageKey => localStorage' = localStorage]_vars

\* the hook moved from the default key to 'printer-office' and updated
\* there; the default key still holds its stored printer
C25_Witness ==
    /\ hook.keyChanges = 1
    /\ hook.storageKey = "printer-office"
    /\ hook.last = "update"
    /\ localStorage[DEFAULT_STORAGE_KEY] =
           JSONstringify([printerIP |-> << "1", "0", ".", "0", ".", "0", ".", "5", "1" >>])
    /\ localStorage["printer-office"] \notin StoredItems

\* C26: isConfigured is true iff config is not null and its printerIP is
\* non-empty, not whitespace-only and not '0.0.0.0'
C26_IsConfiguredIffValidIP ==
    hook.isConfigured =
        /\ hook.config # Null
        /\ "printerIP" \in DOMAIN hook.config
        /\ Len(hook.config.printerIP) > 0
        /\ \E i \in DOMAIN hook.config.printerIP : hook.config.printerIP[i] # " "
        /\ hook.config.printerIP # << "0", ".", "0", ".", "0", ".", "0" >>

\* the address ' 0.0.0.0' counts as configured, '0.0.0.0' does not
C26_Witness ==
    /\ hook.last = "update"
    /\ hook.config.printerIP = << " ", "0", ".", "0", ".", "0", ".", "0" >>
    /\ hook.isConfigured
    /\ localStorage[hook.storageKey].json.printerIP = hook.config.printerIP

(***************************************************************************)
(* Properties of the PDF.js worker source (SpecWorker).                    *)
(***************************************************************************)
\* C28: a processing call made after configurePdfWorker(src) starts its
\* worker from the source configured last, and a call that starts the CDN
\* worker is one before which configurePdfWorker was never called
C28_ConfiguredWorkerInEffect ==
    \A i \in DOMAIN pdfCalls :
        (pdfCalls[i].fn \in PdfFunctions /\ pdfCalls[i].pc = "done") =>
            /\ pdfCalls[i].configured # "" => pdfCalls[i].workerSrc = pdfCalls[i].current
            /\ pdfCalls[i].workerSrc = PDFJS_CDN_WORKER_URL => pdfCalls[i].configured = ""

(***************************************************************************)
(* Properties of the sending methods of EposPrintService (SpecService).    *)
(***************************************************************************)
\* C21: in every call send is invoked at most once, and always with the XML
\* of a builder constructed in that same call: no other call has constructed
\* or used that builder
C21_SendOnceWithFreshBuilder ==
    \A i \in DOMAIN jobs :
        /\ Len(jobs[i].sent) <= 1
        /\ \A k \in DOMAIN jobs[i].sent :
              /\ jobs[i].builder # 0
              /\ jobs[i].sent[k] = BuilderXml(jobs[i].kind, jobs[i].builder)
              /\ \A j \in DOMAIN jobs \ {i} :
                    /\ jobs[j].builder # jobs[i].builder
                    /\ \A m \in DOMAIN jobs[j].sent :
                          jobs[j].sent[m].builder # jobs[i].builder

\* a printCanvas and a checkConnection have both sent
C21_Witness ==
    /\ Len(jobs) = 2
    /\ jobs[1].kind = "printCanvas"
    /\ jobs[2].kind = "checkConnection"
    /\ Len(jobs[1].sent) = 1
    /\ Len(jobs[2].sent) = 1
    /\ jobs[2].sent[1].commands = << >>

\* C30: the caller of a sending method observes exactly one PrintResult, the
\* first outcome that occurred (printer response, network error, guard
\* timeout, thrown exception); outcomes arriving later leave it unchanged
C30_FirstOutcomeDelivered ==
    \A i \in DOMAIN jobs :
        IF jobs[i].outcomes = << >>
        THEN jobs[i].result = "" /\ jobs[i].pc # "settled"
        ELSE jobs[i].result = jobs[i].outcomes[1] /\ jobs[i].pc = "settled"

\* the guard timer fired first and the printer's answer arrived afterwards;
\* in another call send threw and the timer, never cleared, fired later
C30_Witness ==
    /\ Len(jobs) = 2
    /\ jobs[1].kind = "printPages"
    /\ jobs[1].outcomes = << "TIMEOUT", "SUCCESS" >>
    /\ jobs[1].result = "TIMEOUT"
    /\ jobs[2].kind = "printWithBuilder"
    /\ jobs[2].outcomes = << "SDK_ERROR", "TIMEOUT" >>
    /\ jobs[2].result = "SDK_ERROR"

\* C31: every call of a sending method eventually resolves with a PrintResult,
\* even if the printer never responds, provided the SDK load settles and
\* timers fire; the guard timer is set to config.timeout + 5000 ms, + 10000
\* ms for printPages and min(config.timeout, 10000) ms for checkConnection,
\* and a call it ends resolves with TIMEOUT
C31_EveryCallResolves ==
    /\ [](\A i \in DOMAIN jobs :
            /\ jobs[i].timer # "none" =>
                  jobs[i].delay =
                      IF jobs[i].kind = "printPages" THEN jobs[i].timeout + 10000
                      ELSE IF jobs[i].kind = "checkConnection"
                           THEN (IF jobs[i].timeout <= 10000 THEN jobs[i].timeout ELSE 10000)
                           ELSE jobs[i].timeout + 5000
            /\ (jobs[i].outcomes # << >> /\ jobs[i].outcomes[1] = "TIMEOUT") =>
                  jobs[i].result = "TIMEOUT"
            /\ jobs[i].pc = "settled" => jobs[i].result # "")
    /\ \A i \in 1 .. MaxTimedJobs :
          (Len(jobs) >= i) ~> (Len(jobs) >= i /\ jobs[i].pc = "settled")

\* a printCanvas whose printer never answered was resolved by its guard
\* timer, set to 65000 ms
C31_Witness ==
    /\ Len(jobs) >= 1
    /\ jobs[1].kind = "printCanvas"
    /\ jobs[1].timeout = 60000
    /\ jobs[1].delay = 65000
    /\ jobs[1].xhr = "pending"
    /\ jobs[1].timer = "fired"
    /\ jobs[1].pc = "settled"
    /\ jobs[1].result = "TIMEOUT"

\* C32: whenever the result was delivered by a path other than the guard
\* timeout (printer response, network error, missing canvas context, thrown
\* exception), the guard timer has been cancelled: it is not pending and
\* does not fire afterwards
C32_TimerCancelledOnDelivery ==
    \A i \in DOMAIN jobs :
        (jobs[i].pc = "settled" /\ jobs[i].result \notin {"TIMEOUT", "SDK_NOT_LOADED"}) =>
            jobs[i].timer = "cleared"

\* C33: if the SDK cannot be loaded, the operation resolves with
\* SDK_NOT_LOADED and has constructed no builder, started no timer and sent
\* no request; no other call resolves with that code
C33_SdkNotLoaded ==
    \A i \in DOMAIN jobs :
        /\ jobs[i].sdkLoaded = "no" =>
              /\ jobs[i].pc = "settled"
              /\ jobs[i].result = "SDK_NOT_LOADED"
              /\ jobs[i].builder = 0
              /\ jobs[i].timer = "none"
              /\ jobs[i].sent = << >>
              /\ jobs[i].xhr = "none"
        /\ jobs[i].result = "SDK_NOT_LOADED" => jobs[i].sdkLoaded = "no"

\* a printPages and a checkConnection both ended without the SDK
C33_Witness ==
    /\ Len(jobs) = 2
    /\ jobs[1].kind = "printPages"
    /\ jobs[2].kind = "checkConnection"
    /\ jobs[1].sdkLoaded = "no"
    /\ jobs[2].sdkLoaded = "no"
    /\ jobs[1].result = "SDK_NOT_LOADED"
    /\ jobs[2].result = "SDK_NOT_LOADED"

(***************************************************************************)
(* Properties of the job of printPages (SpecPages).                        *)
(***************************************************************************)
\* the commands that are images, in job order
ImagesOf(job) == SelectSeq(job, LAMBDA c : c.cmd = "addImage")

RECURSIVE PagesPart(_, _, _)
\* the pages part of the job for the first n canvases: per canvas an aligned
\* image, followed by a separator if one is asked for and a page follows
PagesPart(canvases, pageSeparator, n) ==
    IF n = 0 THEN << >>
    ELSE PagesPart(canvases, pageSeparator, n - 1)
         \o << Command("addTextAlign", "center"), Command("addImage", canvases[n].id) >>
         \o (IF pageSeparator /\ n < Len(canvases) THEN SeparatorCommands ELSE << >>)

\* C36: the job sent by printPages is: the header (only if given), one image
\* per input canvas in input order with a separator only between consecutive
\* pages and only when pageSeparator is set, the footer (only if given), a
\* 3-line feed, and a cut iff the cut option is on; every input canvas
\* contributes exactly one image
C36_PagesJobOrder ==
    pagesCall.pc = "sent" =>
        LET job      == pagesCall.sent[1]
            canvases == pagesCall.canvases
            options  == pagesCall.options
            header   == IF options.header = "" THEN << >>
                        ELSE << Command("addTextAlign", "center"), Command("addTextStyle", "bold"),
                                Command("addTextSize", "2x2"), Command("addText", options.header),
                                Command("addTextSize", "1x1"), Command("addTextStyle", "normal"),
                                Command("addFeedLine", "1") >>
            footer   == IF options.footer = "" THEN << >>
                        ELSE << Command("addFeedLine", "1"), Command("addTextAlign", "center"),
                                Command("addText", options.footer) >>
            ending   == IF pagesCall.cut
                        THEN << Command("addFeedLine", "3"), Command("addCut", "feed") >>
                        ELSE << Command("addFeedLine", "3") >>
        IN  /\ job = header \o PagesPart(canvases, options.pageSeparator, Len(canvases))
                      \o footer \o ending
            /\ Len(ImagesOf(job)) = Len(canvases)
            /\ \A i \in DOMAIN canvases : ImagesOf(job)[i].arg = canvases[i].id

(***************************************************************************)
(* Properties of the SDK loader (SpecLoader).                              *)
(***************************************************************************)
\* C20: at most one SDK script element is ever appended to the document, and
\* every loadEpsonSDK call made while a load is in progress receives the
\* promise of a load in progress and starts no load of its own
C20_LoaderSingleton ==
    /\ Len(scripts) <= 1
    /\ \A c \in 1..Len(calls) :
        calls[c].during # {} => calls[c].got \in calls[c].during /\ ~calls[c].started

\* C34: a load started by loadEpsonSDK always resolves, to true or to false:
\* to true only with the SDK available, and a load that fails (script error
\* or availability timeout) leaves state.loaded = false, state.loading =
\* false and state.error non-null at the moment it resolves; a call that
\* returns true at once does so only with the SDK available
C34_LoadResolvesTrueOrFalse ==
    [][/\ \A i \in DOMAIN loads :
             (loads[i].pc # "done" /\ loads'[i].pc = "done") =>
                 /\ loads'[i].result \in {"true", "false"}
                 /\ loads'[i].result = "true" => epson' /\ state'.loaded /\ ~state'.loading
                 /\ loads'[i].result = "false" =>
                       /\ ~epson'
                       /\ ~state'.loaded
                       /\ ~state'.loading
                       /\ state'.error # "null"
       /\ \A c \in DOMAIN calls' \ DOMAIN calls : calls'[c].got = 0 => epson
       /\ \A i \in DOMAIN loads : loads[i].pc = "done" => loads'[i] = loads[i]]_vars

\* one load failed on the script error and a later one on the timeout of the
\* wait for window.epson
C34_Witness ==
    /\ Len(loads) = 2
    /\ loads[1] = [pc |-> "done", result |-> "false"]
    /\ loads[2] = [pc |-> "done", result |-> "false"]
    /\ scripts = << "failed" >>
    /\ ~epson
    /\ state.error # "null"
    /\ ~state.loading
    /\ ~state.loaded

\* C35: under every interleaving of loadEpsonSDK calls, load successes and
\* failures and resetLoaderState calls, state.loading and state.loaded are
\* never both true
C35_NeverLoadingAndLoaded == ~(state.loading /\ state.loaded)

\* a load abandoned by resetLoaderState succeeded while a newer load was
\* still in progress
C35_Witness ==
    /\ resets = 1
    /\ Len(loads) = 2
    /\ loads[1] = [pc |-> "done", result |-> "true"]
    /\ loads[2].pc # "done"
    /\ state.loaded
    /\ ~state.loading
    /\ state.promise = 2

(***************************************************************************)
(* Properties of PdfPreview (SpecPreview).                                 *)
(***************************************************************************)
\* C37: a step of a loadPdf that has been abandoned (its effect was cleaned
\* up because file or paperWidth changed or the component unmounted) leaves
\* pages, currentPage, loading and error as they are and calls
\* onPagesLoaded with nothing, whatever a newer load is doing
C37_AbandonedLoadDeliversNothing ==
    [][\A i \in DOMAIN loadPdfs :
          (loadPdfs[i].cancelled /\ loadPdfs'[i] # loadPdfs[i]) =>
              /\ pdfPreview'.pages = pdfPreview.pages
              /\ pdfPreview'.currentPage = pdfPreview.currentPage
              /\ pdfPreview'.loading = pdfPreview.loading
              /\ pdfPreview'.error = pdfPreview.error
              /\ pdfPreview'.delivered = pdfPreview.delivered]_vars

\* the load for a.pdf was abandoned while processing its pages and went on
\* to process both; only the newer load's page was delivered afterwards
C37_Witness ==
    /\ Len(loadPdfs) = 2
    /\ loadPdfs[1].cancelled
    /\ loadPdfs[1].pc = "done"
    /\ Len(loadPdfs[1].loadedPages) = 2
    /\ loadPdfs[2].pc = "done"
    /\ ~loadPdfs[2].cancelled
    /\ pdfPreview.pages = loadPdfs[2].loadedPages
    /\ pdfPreview.delivered = << loadPdfs[2].loadedPages >>
    /\ ~pdfPreview.loading

=============================================================================
